---- MODULE Spec2Model ----
(***************************************************************************)
(* A model of TinyJS (src/TinyJS.h, src/TinyJS.cpp, src/TinyJS_Functions.cpp): *)
(* the lexer, the reference-counted value graph and the evaluator.          *)
(*                                                                         *)
(* Strings are sequences of one-character strings.  Values, Links and      *)
(* Lexers live in three heaps (sequences of records indexed by address); a *)
(* destroyed object keeps its last contents until its address is handed   *)
(* out again, as freed memory does.  0 is the null pointer.                *)
(*                                                                         *)
(* The evaluator's routines are operators on an interpreter state record   *)
(* s.  A C++ exception is the field s.err: once it is set every routine    *)
(* returns its argument unchanged until a catch clears it.  The bool       *)
(* reference `execute` that the C++ routines thread through is s.ex.       *)
(***************************************************************************)
EXTENDS Integers, Sequences, FiniteSets, TLC

\* st is the interpreter with its heap, pc the host's position, call the host's
\* call in progress or last ended, hrefs the values the host holds a reference on
VARIABLES st, pc, call, hrefs

\* The call of a routine by its name, defined after the routines
RECURSIVE invoke(_, _, _)

\* ------------------------------------------------------------------ Utils

NUL == "\\0"
BEL == "\\a"

Lower == {"a","b","c","d","e","f","g","h","i","j","k","l","m",
          "n","o","p","q","r","s","t","u","v","w","x","y","z"}
Upper == {"A","B","C","D","E","F","G","H","I","J","K","L","M",
          "N","O","P","Q","R","S","T","U","V","W","X","Y","Z"}
Digits == {"0","1","2","3","4","5","6","7","8","9"}

isWhitespace(ch) == ch \in {" ", "\t", "\n", "\r"}
isNumeric(ch) == ch \in Digits
isHexadecimal(ch) == ch \in Digits \cup {"a","b","c","d","e","f","A","B","C","D","E","F"}
isAlpha(ch) == ch \in Lower \cup Upper \cup {"_"}

\* a byte above 127 (the byte 200)
HIGH == "\\xC8"

\* the characters of the model that are bytes below 32 or above 127 and have no
\* case of their own in getJSString
Unprintable == {"\t", "\f", HIGH}

\* "((int)nStr[i]) & 0xFF" of such a character
charCode(ch) == CASE ch = "\t" -> 9 [] ch = "\f" -> 12 [] ch = HIGH -> 200

HexDigits == <<"0","1","2","3","4","5","6","7","8","9","A","B","C","D","E","F">>

\* sprintf_s(buffer, 5, "\\x%02X", nCh)
hexEscape(nCh) == <<"\\", "x", HexDigits[(nCh \div 16) + 1], HexDigits[(nCh % 16) + 1]>>

\* getJSString, the switch: the text a character is replaced with (the
\* character itself when replace is false)
replaceWithText(ch) ==
  CASE ch = "\\" -> <<"\\", "\\">>
    [] ch = "\n" -> <<"\\", "n">>
    [] ch = "\r" -> <<"\\", "r">>
    [] ch = BEL  -> <<"\\", "a">>
    [] ch = "\"" -> <<"\\", "\"">>
    [] OTHER     -> IF ch \in Unprintable THEN hexEscape(charCode(ch)) ELSE <<ch>>

\* getJSString, the for loop from the index i on
RECURSIVE getJSStringFrom(_, _)
getJSStringFrom(nStr, i) ==
  IF i > Len(nStr) THEN nStr
  ELSE LET r == replaceWithText(nStr[i])
       IN getJSStringFrom(SubSeq(nStr, 1, i - 1) \o r \o SubSeq(nStr, i + 1, Len(nStr)),
                          i + Len(r))

\* convert the given string into a quoted string suitable for javascript
getJSString(str) == <<"\"">> \o getJSStringFrom(str, 1) \o <<"\"">>

\* getJSString reads "buffer" through replaceWith after the block that declares
\* it has ended
readsDeadBuffer(str) == \E i \in 1..Len(str) : str[i] \in Unprintable

isNumber(str) == \A i \in 1..Len(str) : isNumeric(str[i])

DigitVal(ch) ==
  CASE ch = "0" -> 0 [] ch = "1" -> 1 [] ch = "2" -> 2 [] ch = "3" -> 3
    [] ch = "4" -> 4 [] ch = "5" -> 5 [] ch = "6" -> 6 [] ch = "7" -> 7
    [] ch = "8" -> 8 [] ch = "9" -> 9
    [] ch \in {"a","A"} -> 10 [] ch \in {"b","B"} -> 11 [] ch \in {"c","C"} -> 12
    [] ch \in {"d","D"} -> 13 [] ch \in {"e","E"} -> 14 [] ch \in {"f","F"} -> 15
    [] OTHER -> 99

DigitCh(d) == <<"0","1","2","3","4","5","6","7","8","9">>[d + 1]

\* The digits of str from position i on that are valid in the base, folded
\* into acc; stops at the first character that is no digit of the base.
RECURSIVE strtolDigits(_, _, _, _)
strtolDigits(str, i, base, acc) ==
  IF i > Len(str) \/ DigitVal(str[i]) >= base THEN acc
  ELSE strtolDigits(str, i + 1, base, acc * base + DigitVal(str[i]))

\* strtol(str, 0, 0): optional sign, then 0x -> base 16, leading 0 -> base 8,
\* otherwise base 10.
strtol(str) ==
  LET neg  == Len(str) >= 1 /\ str[1] = "-"
      p    == IF Len(str) >= 1 /\ str[1] \in {"-", "+"} THEN 2 ELSE 1
      hex  == Len(str) >= p + 2 /\ str[p] = "0" /\ str[p + 1] \in {"x", "X"}
                /\ isHexadecimal(str[p + 2])
      oct  == ~hex /\ Len(str) >= p /\ str[p] = "0"
      mag  == IF hex THEN strtolDigits(str, p + 2, 16, 0)
              ELSE IF oct THEN strtolDigits(str, p + 1, 8, 0)
              ELSE strtolDigits(str, p, 10, 0)
  IN IF neg THEN 0 - mag ELSE mag

\* atoi(str): decimal digits only.
atoi(str) ==
  LET neg == Len(str) >= 1 /\ str[1] = "-"
      p   == IF Len(str) >= 1 /\ str[1] \in {"-", "+"} THEN 2 ELSE 1
      mag == strtolDigits(str, p, 10, 0)
  IN IF neg THEN 0 - mag ELSE mag

RECURSIVE natToStr(_)
natToStr(n) == IF n < 10 THEN <<DigitCh(n)>> ELSE Append(natToStr(n \div 10), DigitCh(n % 10))

\* sprintf("%ld", n)
intToStr(n) == IF n < 0 THEN <<"-">> \o natToStr(0 - n) ELSE natToStr(n)

\* ------------------------------------------------------------------ Lexer

LEXER_EOF == "EOF"
LEXER_ID == "ID"
LEXER_INT == "INT"
LEXER_FLOAT == "FLOAT"
LEXER_STR == "STR"

\* The reserved words, each its own token kind: the kind is the word.
ReservedWord(str) ==
  CASE str = <<"i","f">> -> "if"
    [] str = <<"e","l","s","e">> -> "else"
    [] str = <<"d","o">> -> "do"
    [] str = <<"w","h","i","l","e">> -> "while"
    [] str = <<"f","o","r">> -> "for"
    [] str = <<"b","r","e","a","k">> -> "break"
    [] str = <<"c","o","n","t","i","n","u","e">> -> "continue"
    [] str = <<"f","u","n","c","t","i","o","n">> -> "function"
    [] str = <<"r","e","t","u","r","n">> -> "return"
    [] str = <<"v","a","r">> -> "var"
    [] str = <<"t","r","u","e">> -> "true"
    [] str = <<"f","a","l","s","e">> -> "false"
    [] str = <<"n","u","l","l">> -> "null"
    [] str = <<"u","n","d","e","f","i","n","e","d">> -> "undefined"
    [] str = <<"n","e","w">> -> "new"
    [] OTHER -> LEXER_ID

\* A lexer object.  data is the whole buffer (a sub-lexer shares its owner's);
\* offsets are the C offsets, so the character at offset p is data[p + 1].
getNextCh(x) ==
  [x EXCEPT !.currCh = x.nextCh,
            !.nextCh = IF x.dataPos < x.dataEnd THEN x.data[x.dataPos + 1] ELSE NUL,
            !.dataPos = x.dataPos + 1]

RECURSIVE skipWhitespace(_)
skipWhitespace(x) ==
  IF x.currCh # NUL /\ isWhitespace(x.currCh) THEN skipWhitespace(getNextCh(x)) ELSE x

RECURSIVE skipLineComment(_)
skipLineComment(x) ==
  IF x.currCh # NUL /\ x.currCh # "\n" THEN skipLineComment(getNextCh(x)) ELSE x

RECURSIVE skipBlockComment(_)
skipBlockComment(x) ==
  IF x.currCh # NUL /\ (x.currCh # "*" \/ x.nextCh # "/")
  THEN skipBlockComment(getNextCh(x)) ELSE x

\* while (isAlpha(currCh) || isNumeric(currCh)) { tkStr += currCh; getNextCh(); }
RECURSIVE takeWhile(_, _)
takeWhile(x, cls) ==
  IF \/ (cls = "id" /\ (isAlpha(x.currCh) \/ isNumeric(x.currCh)))
     \/ (cls = "dec" /\ isNumeric(x.currCh))
     \/ (cls = "hex" /\ (isNumeric(x.currCh) \/ isHexadecimal(x.currCh)))
  THEN takeWhile(getNextCh([x EXCEPT !.tkStr = Append(@, x.currCh)]), cls)
  ELSE x

take(x) == getNextCh([x EXCEPT !.tkStr = Append(@, x.currCh)])

\* "if (currCh=='-') { tkStr += currCh; getNextCh(); }" of the exponent
lexSign(x) == IF x.currCh = "-" THEN take(x) ELSE x

\* "if (!isHex && (currCh=='e'||currCh=='E'))"
lexExponent(x) ==
  IF x.currCh \in {"e", "E"}
  THEN takeWhile(lexSign(take([x EXCEPT !.tk = LEXER_FLOAT])), "dec")
  ELSE x

\* "if (!isHex && currCh=='.')"
lexFraction(x) ==
  IF x.currCh = "."
  THEN takeWhile(getNextCh([x EXCEPT !.tk = LEXER_FLOAT, !.tkStr = Append(@, ".")]), "dec")
  ELSE x

\* "if (currCh=='x') isHex = true", and the digits that follow
lexDigits(x) ==
  IF x.currCh = "x"
  THEN takeWhile([take(x) EXCEPT !.tk = LEXER_INT], "hex")
  ELSE lexExponent(lexFraction(takeWhile([x EXCEPT !.tk = LEXER_INT], "dec")))

lexNumber(x) == lexDigits(IF x.currCh = "0" THEN take(x) ELSE x)

\* The body of a double-quoted string literal, up to the closing quote.
RECURSIVE lexDQ(_)
lexDQ(x) ==
  IF x.currCh # NUL /\ x.currCh # "\""
  THEN IF x.currCh = "\\"
       THEN LET y == getNextCh(x)
                c == IF y.currCh = "n" THEN "\n" ELSE y.currCh
            IN lexDQ(getNextCh([y EXCEPT !.tkStr = Append(@, c)]))
       ELSE lexDQ(take(x))
  ELSE x

\* The body of a single-quoted string literal (its \x and octal escapes are
\* read by strtol over the next characters).
RECURSIVE lexSQ(_)
lexSQ(x) ==
  IF x.currCh # NUL /\ x.currCh # "'"
  THEN IF x.currCh = "\\"
       THEN LET y == getNextCh(x)
                c == CASE y.currCh = "n" -> "\n"
                       [] y.currCh = "a" -> BEL
                       [] y.currCh = "r" -> "\r"
                       [] y.currCh = "t" -> "\t"
                       [] OTHER -> y.currCh
            IN lexSQ(getNextCh([y EXCEPT !.tkStr = Append(@, c)]))
       ELSE lexSQ(take(x))
  ELSE x

\* Single characters and the multi-character operators.
\* c is the character the token starts with, x the lexer after it
lexPunctAfter(x, c) ==
  LET n == x.currCh
      two(k) == getNextCh([x EXCEPT !.tk = k])
      three(k2, k3, third) ==
        LET y == two(k2) IN IF y.currCh = third THEN getNextCh([y EXCEPT !.tk = k3]) ELSE y
  IN CASE c = NUL -> [x EXCEPT !.tk = LEXER_EOF]
       [] c = "=" /\ n = "=" -> three("==", "===", "=")
       [] c = "!" /\ n = "=" -> three("!=", "!==", "=")
       [] c = "<" /\ n = "=" -> two("<=")
       [] c = "<" /\ n = "<" -> three("<<", "<<=", "=")
       [] c = ">" /\ n = "=" -> two(">=")
       [] c = ">" /\ n = ">" ->
            LET y == two(">>")
            IN IF y.currCh = "=" THEN getNextCh([y EXCEPT !.tk = ">>="])
               ELSE IF y.currCh = ">" THEN getNextCh([y EXCEPT !.tk = ">>>"])
               ELSE y
       [] c = "+" /\ n = "=" -> two("+=")
       [] c = "-" /\ n = "=" -> two("-=")
       [] c = "+" /\ n = "+" -> two("++")
       [] c = "-" /\ n = "-" -> two("--")
       [] c = "&" /\ n = "=" -> two("&=")
       [] c = "&" /\ n = "&" -> two("&&")
       [] c = "|" /\ n = "=" -> two("|=")
       [] c = "|" /\ n = "|" -> two("||")
       [] c = "^" /\ n = "=" -> two("^=")
       [] OTHER -> [x EXCEPT !.tk = c]

lexPunct(x) == lexPunctAfter(IF x.currCh # NUL THEN getNextCh(x) ELSE x, x.currCh)

\* "tk = LEXER_ID; if (tkStr==...) tk = ..." after the identifier is read
lexWord(x) == [x EXCEPT !.tk = ReservedWord(x.tkStr)]

\* the token that starts at the current character
lexToken(x) ==
  IF isAlpha(x.currCh) THEN lexWord(takeWhile(x, "id"))
  ELSE IF isNumeric(x.currCh) THEN lexNumber(x)
  ELSE IF x.currCh = "\"" THEN [getNextCh(lexDQ(getNextCh(x))) EXCEPT !.tk = LEXER_STR]
  ELSE IF x.currCh = "'" THEN [getNextCh(lexSQ(getNextCh(x))) EXCEPT !.tk = LEXER_STR]
  ELSE lexPunct(x)

\* "tokenStart = dataPos-2"
tokenStarts(x) == [x EXCEPT !.tokenStart = x.dataPos - 2]

\* "tokenLastEnd = tokenEnd; tokenEnd = dataPos-3"
tokenEnds(x) == [x EXCEPT !.tokenLastEnd = x.tokenEnd, !.tokenEnd = x.dataPos - 3]

RECURSIVE getNextToken(_)
\* Lexer::getNextToken, after the whitespace is skipped
tokenOrComment(x) ==
  IF x.currCh = "/" /\ x.nextCh = "/"
  THEN invoke("getNextToken", getNextCh(skipLineComment(x)), <<>>)
  ELSE IF x.currCh = "/" /\ x.nextCh = "*"
  THEN invoke("getNextToken", getNextCh(getNextCh(skipBlockComment(x))), <<>>)
  ELSE tokenEnds(lexToken(tokenStarts(x)))

\* Lexer::getNextToken
getNextToken(x) ==
  tokenOrComment(skipWhitespace([x EXCEPT !.tk = LEXER_EOF, !.tkStr = <<>>]))

\* Lexer::reset
reset(x) ==
  invoke("getNextToken", getNextCh(getNextCh(
    [x EXCEPT !.dataPos = x.dataStart, !.tokenStart = 0, !.tokenEnd = 0,
              !.tokenLastEnd = 0, !.tk = LEXER_EOF, !.tkStr = <<>>])), <<>>)

BlankLexer ==
  [alive |-> TRUE, data |-> <<>>, dataOwned |-> TRUE, dataStart |-> 0, dataEnd |-> 0,
   dataPos |-> 0, currCh |-> NUL, nextCh |-> NUL, tk |-> LEXER_EOF, tkStr |-> <<>>,
   tokenStart |-> 0, tokenEnd |-> 0, tokenLastEnd |-> 0]

\* Lexer::Lexer(const std::string &input)
LexerOfString(input) ==
  invoke("reset", [BlankLexer EXCEPT !.data = input, !.dataEnd = Len(input)], <<>>)

\* Lexer::Lexer(Lexer *owner, int startChar, int endChar)
LexerOfOwner(owner, startChar, endChar) ==
  invoke("reset", [BlankLexer EXCEPT !.data = owner.data, !.dataOwned = FALSE,
                           !.dataStart = startChar, !.dataEnd = endChar], <<>>)

\* Lexer::getSubString(lastPosition): the text from lastPosition through the
\* end of the previous token.
getSubString(x, lastPosition) ==
  LET lastCharIdx == x.tokenLastEnd + 1
      stop == IF lastCharIdx < x.dataEnd THEN lastCharIdx ELSE Len(x.data)
  IN SubSeq(x.data, lastPosition + 1, stop)

\* Lexer::getPosition, Lexer::getTokenStr only format the text of error
\* messages; an error is modelled by its kind (s.err), so they are omitted.

\* ------------------------------------------------------------------ Variable flags

VARIABLE_UNDEFINED == {}
VARIABLE_FUNCTION == {"FUNCTION"}
VARIABLE_OBJECT == {"OBJECT"}
VARIABLE_ARRAY == {"ARRAY"}
VARIABLE_DOUBLE == {"DOUBLE"}
VARIABLE_INTEGER == {"INTEGER"}
VARIABLE_STRING == {"STRING"}
VARIABLE_NULL == {"NULL"}
VARIABLE_NATIVE == {"NATIVE"}
VARIABLE_NUMERICMASK == VARIABLE_NULL \cup VARIABLE_DOUBLE \cup VARIABLE_INTEGER
VARIABLE_TYPEMASK == VARIABLE_DOUBLE \cup VARIABLE_INTEGER \cup VARIABLE_STRING \cup
                     VARIABLE_FUNCTION \cup VARIABLE_OBJECT \cup VARIABLE_ARRAY \cup VARIABLE_NULL

TINYJS_RETURN_VAR == <<"r","e","t","u","r","n">>
TINYJS_PROTOTYPE_CLASS == <<"p","r","o","t","o","t","y","p","e">>
TINYJS_TEMP_NAME == <<>>
TINYJS_BLANK_DATA == <<>>

\* The flag tests of class Variable, on a Variable record r.
isInt(r) == r.flags \cap VARIABLE_INTEGER # {}
isDouble(r) == r.flags \cap VARIABLE_DOUBLE # {}
isString(r) == r.flags \cap VARIABLE_STRING # {}
isNumericVar(r) == r.flags \cap VARIABLE_NUMERICMASK # {}
isFunction(r) == r.flags \cap VARIABLE_FUNCTION # {}
isObject(r) == r.flags \cap VARIABLE_OBJECT # {}
isArray(r) == r.flags \cap VARIABLE_ARRAY # {}
isNative(r) == r.flags \cap VARIABLE_NATIVE # {}
isUndefined(r) == r.flags \cap VARIABLE_TYPEMASK = VARIABLE_UNDEFINED
isNull(r) == r.flags \cap VARIABLE_NULL # {}
isBasic(r) == r.firstChild = 0

\* ------------------------------------------------------------------ doubles
\* A finite double is modelled by an exact fraction [n, d] with d > 0; the
\* infinities are [1, 0] and [-1, 0], and [0, 0] is a NaN.  Zero has no sign.

pow10(k) == IF k = 0 THEN 1 ELSE IF k = 1 THEN 10 ELSE IF k = 2 THEN 100
            ELSE IF k = 3 THEN 1000 ELSE 10000

dbl(n) == [n |-> n, d |-> 1]
dNaN == [n |-> 0, d |-> 0]
dIsNaN(a) == a.d = 0 /\ a.n = 0
\* an infinity keeps only its sign
dNorm(a) == IF a.d # 0 THEN a ELSE [n |-> IF a.n > 0 THEN 1 ELSE IF a.n < 0 THEN -1 ELSE 0, d |-> 0]
dNeg(a) == [n |-> 0 - a.n, d |-> a.d]
dAdd(a, b) == IF a.d = 0 /\ b.d = 0 THEN (IF a = b THEN a ELSE dNaN)
              ELSE dNorm([n |-> a.n * b.d + b.n * a.d, d |-> a.d * b.d])
dSub(a, b) == dAdd(a, dNeg(b))
dMul(a, b) == dNorm([n |-> a.n * b.n, d |-> a.d * b.d])
\* a / b (the sign is kept in the numerator); a division by zero gives an
\* infinity or a NaN
dDiv(a, b) == IF b.n < 0 THEN dNorm([n |-> 0 - a.n * b.d, d |-> a.d * (0 - b.n)])
              ELSE dNorm([n |-> a.n * b.d, d |-> a.d * b.n])
dEq(a, b) == /\ ~dIsNaN(a) /\ ~dIsNaN(b)
             /\ IF a.d = 0 \/ b.d = 0 THEN a = b ELSE a.n * b.d = b.n * a.d
dLt(a, b) == /\ ~dIsNaN(a) /\ ~dIsNaN(b)
             /\ IF a.d = 0 \/ b.d = 0
                THEN a # b /\ (a = [n |-> -1, d |-> 0] \/ b = [n |-> 1, d |-> 0])
                ELSE a.n * b.d < b.n * a.d
\* (int)d for a finite d: truncation toward zero
dToInt(a) == IF a.n < 0 THEN 0 - ((0 - a.n) \div a.d) ELSE a.n \div a.d

\* strtod of a FLOAT lexeme: digits [. digits] [e [-] digits]
strtod(str) ==
  LET idx(ch) == IF \E i \in 1..Len(str) : str[i] \in ch
                 THEN CHOOSE i \in 1..Len(str) : str[i] \in ch /\ \A j \in 1..(i - 1) : str[j] \notin ch
                 ELSE Len(str) + 1
      e == idx({"e", "E"})
      dot == IF idx({"."}) < e THEN idx({"."}) ELSE e
      ip == strtolDigits(str, 1, 10, 0)
      frac == SubSeq(str, dot + 1, e - 1)
      fp == strtolDigits(frac, 1, 10, 0)
      mant == [n |-> ip * pow10(Len(frac)) + fp, d |-> pow10(Len(frac))]
      eneg == e + 1 <= Len(str) /\ str[e + 1] = "-"
      ev == strtolDigits(str, IF eneg THEN e + 2 ELSE e + 1, 10, 0)
  IN IF e > Len(str) THEN mant
     ELSE IF eneg THEN [n |-> mant.n, d |-> mant.d * pow10(ev)]
     ELSE [n |-> mant.n * pow10(ev), d |-> mant.d]

\* ------------------------------------------------------------------ heaps

\* Variable::init
BlankVar ==
  [alive |-> TRUE, refs |-> 0, flags |-> {}, intData |-> 0, doubleData |-> dbl(0),
   data |-> TINYJS_BLANK_DATA, firstChild |-> 0, lastChild |-> 0, jsCallback |-> "NULL"]

\* The address operator new returns: a freed address if there is one, else a
\* new one.
freeAddr(heap) ==
  IF \E i \in 1..Len(heap) : ~heap[i].alive
  THEN CHOOSE i \in 1..Len(heap) : ~heap[i].alive /\ \A j \in 1..(i - 1) : heap[j].alive
  ELSE Len(heap) + 1

putAt(heap, i, r) == IF i > Len(heap) THEN Append(heap, r) ELSE [heap EXCEPT ![i] = r]

Failed(s) == s.err # "OK"

\* Undefined behaviour was executed (a destroyed object was used or deleted
\* again).  What follows is the build's choice: the process is killed
\* (s.ubAborts, e.g. the allocator's double-free abort) or it runs on with
\* the stale contents.
undefinedBehaviour(s) ==
  IF s.ubAborts THEN [s EXCEPT !.ub = TRUE, !.err = "ABORT"] ELSE [s EXCEPT !.ub = TRUE]

\* a VariableLink that has been destroyed is read, retargeted or destroyed
usesDeadLink(s) == undefinedBehaviour([s EXCEPT !.deadLink = TRUE])

\* new Variable(...): the new object's address is left in s.nv.
newVar(s, r) ==
  LET v == freeAddr(s.V) IN [s EXCEPT !.V = putAt(s.V, v, r), !.nv = v]

\* Variable::Variable()
newVariable(s) == newVar(s, BlankVar)

\* Variable::Variable(const std::string &varData, int varFlags)
newVariableOf(s, varData, varFlags) ==
  newVar(s, IF varFlags \cap VARIABLE_INTEGER # {}
            THEN [BlankVar EXCEPT !.flags = varFlags, !.intData = invoke("strtol", varData, <<>>)]
            ELSE IF varFlags \cap VARIABLE_DOUBLE # {}
            THEN [BlankVar EXCEPT !.flags = varFlags, !.doubleData = invoke("strtod", varData, <<>>)]
            ELSE [BlankVar EXCEPT !.flags = varFlags, !.data = varData])

\* Variable::setInt and the rest, on a Variable record
setIntR(r, val) ==
  [r EXCEPT !.flags = (r.flags \ VARIABLE_TYPEMASK) \cup VARIABLE_INTEGER,
            !.intData = val, !.doubleData = dbl(0), !.data = TINYJS_BLANK_DATA]
setDoubleR(r, val) ==
  [r EXCEPT !.flags = (r.flags \ VARIABLE_TYPEMASK) \cup VARIABLE_DOUBLE,
            !.doubleData = val, !.intData = 0, !.data = TINYJS_BLANK_DATA]
setStringR(r, str) ==
  [r EXCEPT !.flags = (r.flags \ VARIABLE_TYPEMASK) \cup VARIABLE_STRING,
            !.data = str, !.intData = 0, !.doubleData = dbl(0)]

\* Variable::Variable(int val), Variable::Variable(double val)
newVariableInt(s, val) == newVar(s, setIntR(BlankVar, val))
newVariableDouble(s, val) == newVar(s, setDoubleR(BlankVar, val))
newVariableBool(s, b) == newVariableInt(s, IF b THEN 1 ELSE 0)

\* Variable::ref
ref(s, v) == [s EXCEPT !.V[v].refs = @ + 1]

RECURSIVE unref(_, _)
RECURSIVE deleteVariable(_, _)
RECURSIVE deleteLink(_, _)
RECURSIVE deleteLinksFrom(_, _)

\* Variable::removeAllChildren
removeAllChildren(s, v) ==
  LET s1 == invoke("deleteLinksFrom", s, <<s.V[v].firstChild>>)
  IN [s1 EXCEPT !.V[v].firstChild = 0, !.V[v].lastChild = 0]

\* the loop of removeAllChildren: t = c->nextSibling; delete c; c = t
deleteLinksFrom(s, c) ==
  IF c = 0 THEN s
  ELSE LET t == s.L[c].nextSibling IN invoke("deleteLinksFrom", invoke("deleteLink", s, <<c>>), <<t>>)

\* delete on a Variable: ~Variable, then the memory is freed
deleteVariable(s, v) ==
  IF ~s.V[v].alive THEN undefinedBehaviour(s)
  ELSE LET s1 == invoke("removeAllChildren", s, <<v>>) IN [s1 EXCEPT !.V[v].alive = FALSE]

\* Variable::unref
unref(s, v) ==
  LET s0 == IF s.V[v].alive THEN s ELSE undefinedBehaviour(s)
      s1 == [s0 EXCEPT !.V[v].refs = @ - 1]
  IN IF s0.err # "OK" THEN s0
     ELSE IF s1.V[v].refs = 0 THEN invoke("deleteVariable", s1, <<v>>) ELSE s1

\* delete on a VariableLink: ~VariableLink, then the memory is freed
deleteLink(s, k) ==
  IF ~s.L[k].alive
  THEN LET s0 == usesDeadLink(s) IN IF s0.err # "OK" THEN s0 ELSE invoke("unref", s0, <<s0.L[k].var>>)
  ELSE LET s1 == invoke("unref", s, <<s.L[k].var>>) IN [s1 EXCEPT !.L[k].alive = FALSE]

\* VariableLink::VariableLink(Variable *var, const std::string &name): the new
\* link's address is left in s.nl.
newVariableLink(s, var, name) ==
  LET k == freeAddr(s.L)
      s1 == ref(s, var)
  IN [s1 EXCEPT !.L = putAt(s1.L, k, [alive |-> TRUE, name |-> name, var |-> var,
                                       owned |-> FALSE, nextSibling |-> 0, prevSibling |-> 0]),
                !.nl = k]

\* VariableLink::replaceWith(Variable *newVar)
replaceWith(s, k, target) ==
  LET s0 == IF s.L[k].alive THEN s ELSE usesDeadLink(s)
  IN CASE s0.err # "OK" -> s0
       [] OTHER -> LET oldVar == s0.L[k].var
      s1 == ref([s0 EXCEPT !.L[k].var = target], target)
  IN invoke("unref", s1, <<oldVar>>)

\* VariableLink::replaceWith(VariableLink *newVar)
replaceWithLink(s, k, newLink) ==
  IF newLink # 0 THEN invoke("replaceWith", s, <<k, s.L[newLink].var>>)
  ELSE LET s1 == newVariable(s) IN invoke("replaceWith", s1, <<k, s1.nv>>)

\* Variable::findChild: the first child of v called childName, or 0
RECURSIVE findFrom(_, _, _)
findFrom(s, k, childName) ==
  IF k = 0 THEN 0
  ELSE IF s.L[k].name = childName THEN k
  ELSE findFrom(s, s.L[k].nextSibling, childName)

findChild(s, v, childName) == findFrom(s, s.V[v].firstChild, childName)

\* Variable::addChild(childName, child) with child # 0: the new link is s.nl
addChild(s, v, childName, child) ==
  LET s0 == IF isUndefined(s.V[v]) THEN [s EXCEPT !.V[v].flags = VARIABLE_OBJECT] ELSE s
      s1 == newVariableLink(s0, child, childName)
      link == s1.nl
      last == s1.V[v].lastChild
  IN IF last # 0
     THEN [s1 EXCEPT !.L[link].owned = TRUE, !.L[link].prevSibling = last,
                     !.L[last].nextSibling = link, !.V[v].lastChild = link]
     ELSE [s1 EXCEPT !.L[link].owned = TRUE, !.V[v].firstChild = link, !.V[v].lastChild = link]

\* Variable::addChild(childName) with no child supplied
addChildNew(s, v, childName) ==
  LET s0 == IF isUndefined(s.V[v]) THEN [s EXCEPT !.V[v].flags = VARIABLE_OBJECT] ELSE s
      s1 == newVariable(s0)
  IN invoke("addChild", s1, <<v, childName, s1.nv>>)

\* Variable::addChildNoDup(childName, child) with child # 0: the link is s.nl
addChildNoDup(s, v, childName, child) ==
  LET k == findChild(s, v, childName)
  IN IF k # 0 THEN [invoke("replaceWith", s, <<k, child>>) EXCEPT !.nl = k]
     ELSE invoke("addChild", s, <<v, childName, child>>)

\* Variable::addChildNoDup(childName) with no child supplied
addChildNoDupNew(s, v, childName) ==
  LET s1 == newVariable(s) IN invoke("addChildNoDup", s1, <<v, childName, s1.nv>>)

\* Variable::findChildOrCreate(childName, varFlags): the link is s.nl
findChildOrCreate(s, v, childName, varFlags) ==
  LET k == findChild(s, v, childName)
  IN IF k # 0 THEN [s EXCEPT !.nl = k]
     ELSE LET s1 == invoke("newVariableOf", s, <<TINYJS_BLANK_DATA, varFlags>>)
          IN invoke("addChild", s1, <<v, childName, s1.nv>>)

\* Variable::removeLink
removeLink(s, v, link) ==
  IF link = 0 THEN s
  ELSE LET n == s.L[link].nextSibling
           p == s.L[link].prevSibling
           s1 == IF n # 0 THEN [s EXCEPT !.L[n].prevSibling = p] ELSE s
           s2 == IF p # 0 THEN [s1 EXCEPT !.L[p].nextSibling = n] ELSE s1
           s3 == IF s2.V[v].lastChild = link THEN [s2 EXCEPT !.V[v].lastChild = p] ELSE s2
           s4 == IF s3.V[v].firstChild = link THEN [s3 EXCEPT !.V[v].firstChild = n] ELSE s3
       IN invoke("deleteLink", s4, <<link>>)

\* Variable::removeChild, the loop: the first link from link on that leads to
\* child, 0 when there is none
RECURSIVE findLinkTo(_, _, _)
findLinkTo(s, link, child) ==
  IF link = 0 THEN 0
  ELSE IF s.L[link].var = child THEN link
  ELSE findLinkTo(s, s.L[link].nextSibling, child)

\* Variable::removeChild: ASSERT(link) ends the process when child is no child
removeChild(s, v, child) ==
  LET link == findLinkTo(s, s.V[v].firstChild, child)
  IN IF link = 0 THEN [s EXCEPT !.err = "ABORT"] ELSE invoke("removeLink", s, <<v, link>>)

\* ------------------------------------------------------------------ scalar access

\* the grave accent, code 96
GRAVE == "\\g"

\* The printable ASCII characters in code order, from code 32 on.
Ascii ==
  <<" ","!","\"","#","$","%","&","'","(",")","*","+",",","-",".","/",
    "0","1","2","3","4","5","6","7","8","9",":",";","<","=",">","?",
    "@","A","B","C","D","E","F","G","H","I","J","K","L","M","N","O",
    "P","Q","R","S","T","U","V","W","X","Y","Z","[","\\","]","^","_",
    GRAVE,"a","b","c","d","e","f","g","h","i","j","k","l","m","n","o",
    "p","q","r","s","t","u","v","w","x","y","z","{","|","}","~">>

\* the code of a character
ord(ch) ==
  CASE ch = NUL -> 0 [] ch = BEL -> 7 [] ch = "\t" -> 9 [] ch = "\n" -> 10 [] ch = "\r" -> 13
    [] OTHER -> 31 + (CHOOSE i \in 1..Len(Ascii) : Ascii[i] = ch)

\* std::string operator< : lexicographic by character code
RECURSIVE strLess(_, _)
strLess(a, b) ==
  IF b = <<>> THEN FALSE
  ELSE IF a = <<>> THEN TRUE
  ELSE IF a[1] = b[1] THEN strLess(Tail(a), Tail(b))
  ELSE ord(a[1]) < ord(b[1])

\* Variable::getInt, getBool, getDouble on a Variable record
getInt(r) ==
  IF isInt(r) THEN r.intData
  ELSE IF isNull(r) THEN 0
  ELSE IF isUndefined(r) THEN 0
  ELSE IF isDouble(r) THEN dToInt(r.doubleData)
  ELSE 0

getBool(r) == getInt(r) # 0

getDouble(r) ==
  IF isDouble(r) THEN r.doubleData
  ELSE IF isInt(r) THEN dbl(r.intData)
  ELSE dbl(0)

\* the digits of n, left-padded with zeros to width w
RECURSIVE padded(_, _)
padded(n, w) == IF w = 0 THEN <<>> ELSE Append(padded(n \div 10, w - 1), DigitCh(n % 10))

\* sprintf("%f", d): six decimals (the sign a NaN is printed with is left out)
doubleToStr(d) ==
  LET mag == IF d.n < 0 THEN 0 - d.n ELSE d.n
      q == (mag * 2000000 + d.d) \div (2 * d.d)
  IN IF dIsNaN(d) THEN <<"n","a","n">>
     ELSE IF d.d = 0 THEN (IF d.n < 0 THEN <<"-">> ELSE <<>>) \o <<"i","n","f">>
     ELSE (IF d.n < 0 THEN <<"-">> ELSE <<>>) \o natToStr(q \div 1000000) \o <<".">>
          \o padded(q % 1000000, 6)

s_null == <<"n","u","l","l">>
s_undefined == <<"u","n","d","e","f","i","n","e","d">>

\* Variable::getString: the text it returns
getString(r) ==
  IF isInt(r) THEN intToStr(r.intData)
  ELSE IF isDouble(r) THEN doubleToStr(r.doubleData)
  ELSE IF isNull(r) THEN s_null
  ELSE IF isUndefined(r) THEN s_undefined
  ELSE r.data

\* Variable::getString: for a number it also stores the text in data
getStringStore(s, v) ==
  IF isInt(s.V[v]) \/ isDouble(s.V[v]) THEN [s EXCEPT !.V[v].data = getString(s.V[v])] ELSE s

\* Variable::getParsableString, the list of parameters: the names of the links
\* from link on, with commas between them
RECURSIVE parameterList(_, _)
parameterList(s, link) ==
  IF link = 0 THEN <<>>
  ELSE s.L[link].name \o (IF s.L[link].nextSibling # 0 THEN <<",">> ELSE <<>>)
       \o parameterList(s, s.L[link].nextSibling)

\* Variable::getParsableString: the text is left in s.str
getParsableString(s, v) ==
  IF isNumericVar(s.V[v])
  THEN LET s1 == invoke("getStringStore", s, <<v>>) IN [s1 EXCEPT !.str = getString(s1.V[v])]
  ELSE IF isFunction(s.V[v])
  THEN [s EXCEPT !.str = <<"f","u","n","c","t","i","o","n"," ","(">>
                         \o parameterList(s, s.V[v].firstChild)
                         \o <<")"," ">> \o getString(s.V[v])]
  ELSE IF isString(s.V[v])
  THEN LET s1 == IF readsDeadBuffer(getString(s.V[v])) THEN undefinedBehaviour(s) ELSE s
       IN [s1 EXCEPT !.str = getJSString(getString(s.V[v]))]
  ELSE IF isNull(s.V[v]) THEN [s EXCEPT !.str = <<"n","u","l","l">>]
  ELSE [s EXCEPT !.str = <<"u","n","d","e","f","i","n","e","d">>]

\* Variable::setUndefined, Variable::setArray
setUndefined(s, v) ==
  invoke("removeAllChildren", [s EXCEPT !.V[v].flags = (@ \ VARIABLE_TYPEMASK) \cup VARIABLE_UNDEFINED,
                              !.V[v].data = TINYJS_BLANK_DATA, !.V[v].intData = 0,
                              !.V[v].doubleData = dbl(0)], <<v>>)

setArray(s, v) ==
  invoke("removeAllChildren", [s EXCEPT !.V[v].flags = (@ \ VARIABLE_TYPEMASK) \cup VARIABLE_ARRAY,
                              !.V[v].data = TINYJS_BLANK_DATA, !.V[v].intData = 0,
                              !.V[v].doubleData = dbl(0)], <<v>>)

\* Variable::getArrayLength
RECURSIVE highestIndex(_, _, _)
highestIndex(s, link, highest) ==
  IF link = 0 THEN highest
  ELSE LET val == atoi(s.L[link].name)
       IN invoke("highestIndex", s, <<s.L[link].nextSibling, IF isNumber(s.L[link].name) /\ val > highest THEN val ELSE highest>>)

getArrayLength(s, v) ==
  IF ~isArray(s.V[v]) THEN 0 ELSE invoke("highestIndex", s, <<s.V[v].firstChild, -1>>) + 1

\* Variable::setArrayIndex(idx, value)
setArrayIndex(s, v, idx, value) ==
  LET sIdx == intToStr(idx)
      link == findChild(s, v, sIdx)
  IN IF link # 0
     THEN IF isUndefined(s.V[value]) THEN invoke("removeLink", s, <<v, link>>)
          ELSE invoke("replaceWith", s, <<link, value>>)
     ELSE IF ~isUndefined(s.V[value]) THEN invoke("addChild", s, <<v, sIdx, value>>)
          ELSE s

\* Variable::getChildren
RECURSIVE countFrom(_, _)
countFrom(s, link) == IF link = 0 THEN 0 ELSE 1 + countFrom(s, s.L[link].nextSibling)
getChildren(s, v) == countFrom(s, s.V[v].firstChild)

\* ------------------------------------------------------------------ mathsOp

\* & | ^ on two-complement integers of any width
RECURSIVE bitOp(_, _, _)
bitOp(op, a, b) ==
  LET bit(x, y) == CASE op = "&" -> x * y
                     [] op = "|" -> IF x + y > 0 THEN 1 ELSE 0
                     [] OTHER -> (x + y) % 2
  IN IF a \in {0, -1} /\ b \in {0, -1}
     THEN 0 - bit(0 - a, 0 - b)
     ELSE 2 * bitOp(op, a \div 2, b \div 2) + bit(a % 2, b % 2)

\* C++ integer division and remainder truncate toward zero
cDiv(a, b) ==
  LET q == (IF a < 0 THEN 0 - a ELSE a) \div (IF b < 0 THEN 0 - b ELSE b)
  IN IF (a < 0) # (b < 0) THEN 0 - q ELSE q
cMod(a, b) == a - b * cDiv(a, b)

CompareOps == {"==", "!=", "<", "<=", ">", ">="}

\* the comparisons, from "equal" and "less"
compare(op, eq, lt) ==
  CASE op = "==" -> eq
    [] op = "!=" -> ~eq
    [] op = "<" -> lt
    [] op = "<=" -> lt \/ eq
    [] op = ">" -> ~lt /\ ~eq
    [] op = ">=" -> ~lt

\* the comparisons of two doubles: each is false when an operand is a NaN,
\* but for != which is true
compareDouble(op, da, db) ==
  CASE op = "==" -> dEq(da, db)
    [] op = "!=" -> ~dEq(da, db)
    [] op = "<" -> dLt(da, db)
    [] op = "<=" -> dLt(da, db) \/ dEq(da, db)
    [] op = ">" -> dLt(db, da)
    [] op = ">=" -> dLt(db, da) \/ dEq(da, db)

throw(s, what) == [s EXCEPT !.err = what]

\* a variant of sameTypeTag that takes any two Values for the same type
anyTypeTag(ra, rb) == TRUE

\* Variable::mathsOp, "(a->flags & VARIABLE_TYPEMASK) == (b->flags & VARIABLE_TYPEMASK)"
sameTypeTag(ra, rb) == (ra.flags \cap VARIABLE_TYPEMASK) = (rb.flags \cap VARIABLE_TYPEMASK)

\* Variable::mathsOp(b, op) on receiver a: the result's address is s.nv
RECURSIVE mathsOp(_, _, _, _)
mathsOp(s, a, b, op) ==
  LET ra == s.V[a]
      rb == s.V[b]
  IN
  IF op \in {"===", "!=="} THEN
    LET sameType == sameTypeTag(ra, rb)
        s1 == IF sameType THEN invoke("mathsOp", s, <<a, b, "==">>) ELSE s
        contents == s1.nv
        eql == sameType /\ getBool(s1.V[contents])
        s2 == IF sameType /\ s1.V[contents].refs = 0 THEN invoke("deleteVariable", s1, <<contents>>) ELSE s1
    IN IF s1.err # "OK" THEN s1
       ELSE newVariableBool(s2, IF op = "===" THEN eql ELSE ~eql)
  ELSE IF isUndefined(ra) /\ isUndefined(rb) THEN
    IF op = "==" THEN newVariableBool(s, TRUE)
    ELSE IF op = "!=" THEN newVariableBool(s, FALSE)
    ELSE newVariable(s)
  ELSE IF (isNumericVar(ra) \/ isUndefined(ra)) /\ (isNumericVar(rb) \/ isUndefined(rb)) THEN
    IF ~isDouble(ra) /\ ~isDouble(rb) THEN
      LET da == getInt(ra)
          db == getInt(rb)
      IN CASE op = "+" -> newVariableInt(s, da + db)
           [] op = "-" -> newVariableInt(s, da - db)
           [] op = "*" -> newVariableInt(s, da * db)
           [] op = "/" -> IF db = 0 THEN [s EXCEPT !.ub = TRUE, !.err = "ABORT"]
                          ELSE newVariableInt(s, cDiv(da, db))
           [] op = "%" -> IF db = 0 THEN [s EXCEPT !.ub = TRUE, !.err = "ABORT"]
                          ELSE newVariableInt(s, cMod(da, db))
           [] op \in {"&", "|", "^"} -> newVariableInt(s, bitOp(op, da, db))
           [] op \in CompareOps -> newVariableBool(s, compare(op, da = db, da < db))
           [] OTHER -> throw(s, "NOT_SUPPORTED")
    ELSE
      LET da == getDouble(ra)
          db == getDouble(rb)
      IN CASE op = "+" -> newVariableDouble(s, dAdd(da, db))
           [] op = "-" -> newVariableDouble(s, dSub(da, db))
           [] op = "*" -> newVariableDouble(s, dMul(da, db))
           [] op = "/" -> newVariableDouble(s, dDiv(da, db))
           [] op \in CompareOps -> newVariableBool(s, compareDouble(op, da, db))
           [] OTHER -> throw(s, "NOT_SUPPORTED")
  ELSE IF isArray(ra) \/ isObject(ra) THEN
    CASE op = "==" -> newVariableBool(s, a = b)
      [] op = "!=" -> newVariableBool(s, a # b)
      [] OTHER -> throw(s, "NOT_SUPPORTED")
  ELSE
    LET da == getString(ra)
        db == getString(rb)
        s1 == invoke("getStringStore", invoke("getStringStore", s, <<a>>), <<b>>)
    IN CASE op = "+" -> invoke("newVariableOf", s1, <<da \o db, VARIABLE_STRING>>)
         [] op \in CompareOps -> newVariableBool(s1, compare(op, da = db, strLess(da, db)))
         [] OTHER -> throw(s1, "NOT_SUPPORTED")

\* Variable::equals
equals(s, a, b) == LET s1 == invoke("mathsOp", s, <<a, b, "==">>) IN getBool(s1.V[s1.nv])

\* a variant of copySimpleData that copies nothing
copyNoData(r, val) == r

\* Variable::copySimpleData, on Variable records
copySimpleData(r, val) ==
  [r EXCEPT !.data = val.data, !.intData = val.intData, !.doubleData = val.doubleData,
            !.flags = (r.flags \ VARIABLE_TYPEMASK) \cup (val.flags \cap VARIABLE_TYPEMASK)]

RECURSIVE deepCopy(_, _)
RECURSIVE copyChildren(_, _, _)
RECURSIVE copyChildrenShared(_, _, _)

\* a variant of copyChildren that gives the copy the children of the original
copyChildrenShared(s, child, dst) ==
  IF child = 0 THEN s
  ELSE LET s2 == invoke("addChild", s, <<dst, s.L[child].name, s.L[child].var>>)
       IN copyChildrenShared(s2, s2.L[child].nextSibling, dst)

\* the child loop of deepCopy and copyValue: every child of the original from
\* `child` on is added to dst, deep-copied unless it is the prototype
copyChildren(s, child, dst) ==
  IF child = 0 THEN s
  ELSE LET name == s.L[child].name
           s1 == IF name # TINYJS_PROTOTYPE_CLASS THEN invoke("deepCopy", s, <<s.L[child].var>>)
                 ELSE [s EXCEPT !.nv = s.L[child].var]
           s2 == invoke("addChild", s1, <<dst, name, s1.nv>>)
       IN invoke("copyChildren", s2, <<s2.L[child].nextSibling, dst>>)

\* Variable::deepCopy: the copy's address is s.nv
deepCopy(s, v) ==
  LET s1 == newVar(s, copySimpleData(BlankVar, s.V[v]))
      newVarAddr == s1.nv
  IN [invoke("copyChildren", s1, <<s1.V[v].firstChild, newVarAddr>>) EXCEPT !.nv = newVarAddr]

\* Variable::copyValue(val)
copyValue(s, v, val) ==
  IF val # 0
  THEN LET s1 == invoke("removeAllChildren", [s EXCEPT !.V[v] = copySimpleData(@, s.V[val])], <<v>>)
       IN invoke("copyChildren", s1, <<s1.V[val].firstChild, v>>)
  ELSE invoke("setUndefined", s, <<v>>)

\* ------------------------------------------------------------------ interpreter state

\* A process that dereferences a null pointer, or divides an integer by zero,
\* is killed by the signal.
crash(s) == [s EXCEPT !.ub = TRUE, !.err = "ABORT"]

\* an Exception is in flight, which a catch block can catch (a killed process
\* and a routine that never returns run no handler)
Thrown(s) == s.err \notin {"OK", "ABORT", "HANG"}

\* the current lexer
lex(s) == s.X[s.l]
tk(s) == s.X[s.l].tk
tkStr(s) == s.X[s.l].tkStr

\* new Lexer(...): the new lexer's address is left in s.nx
newLexer(s, x) ==
  LET a == freeAddr(s.X) IN [s EXCEPT !.X = putAt(s.X, a, x), !.nx = a]

\* delete on a Lexer
deleteLexer(s, x) ==
  IF x = 0 THEN s
  ELSE IF ~s.X[x].alive THEN undefinedBehaviour(s)
  ELSE [s EXCEPT !.X[x].alive = FALSE]

\* Lexer::getSubLex on lexer x: the new lexer's address is left in s.nx
getSubLex(s, x, lastPosition) ==
  LET lastCharIdx == s.X[x].tokenLastEnd + 1
  IN newLexer(s, invoke("LexerOfOwner", s.X[x], <<lastPosition, IF lastCharIdx < s.X[x].dataEnd THEN lastCharIdx ELSE s.X[x].dataEnd>>))

\* l->match(expected_tk)
match(s, expected_tk) ==
  IF s.err # "OK" THEN s
  ELSE IF tk(s) # expected_tk THEN throw(s, "MATCH")
  ELSE [s EXCEPT !.X[s.l] = invoke("getNextToken", @, <<>>)]

\* the macro CLEAN(x)
CLEAN(s, x) ==
  IF s.err # "OK" \/ x = 0 THEN s
  ELSE IF ~s.L[x].alive
  THEN LET s0 == usesDeadLink(s)
       IN IF s0.err # "OK" \/ s0.L[x].owned THEN s0 ELSE invoke("deleteLink", s0, <<x>>)
  ELSE IF ~s.L[x].owned THEN invoke("deleteLink", s, <<x>>)
  ELSE s

\* the macro CREATE_LINK(LINK, VAR): the link is left in s.res
CREATE_LINK(s, LINK, VAR) ==
  IF LINK = 0 \/ s.L[LINK].owned
  THEN LET s1 == newVariableLink(s, VAR, <<>>) IN [s1 EXCEPT !.res = s1.nl]
  ELSE [invoke("replaceWith", s, <<LINK, VAR>>) EXCEPT !.res = LINK]

\* new VariableLink(var, name) as a routine's result
resultLink(s, var, name) ==
  LET s1 == newVariableLink(s, var, name) IN [s1 EXCEPT !.res = s1.nl]

\* Variable::setInt on the object at v
setInt(s, v, val) == [s EXCEPT !.V[v] = setIntR(@, val)]

\* mathsOp where one operand is a Variable on the caller's stack ("Variable
\* zero(0)"): the heap holds only the result
mathsOpLocal(s, local, other, op, localIsReceiver) ==
  LET tmp == Len(s.V) + 1
      sT == [s EXCEPT !.V = Append(@, local)]
      r == IF localIsReceiver THEN invoke("mathsOp", sT, <<tmp, other, op>>) ELSE invoke("mathsOp", sT, <<other, tmp, op>>)
  IN IF r.err # "OK" THEN throw(s, r.err)
     ELSE newVar([s EXCEPT !.V[other] = r.V[other]], r.V[r.nv])

\* Interpreter::findInScopes: the link, or 0
RECURSIVE findInScopesFrom(_, _, _)
findInScopesFrom(s, i, childName) ==
  IF i = 0 THEN 0
  ELSE LET v == findChild(s, s.scopes[i], childName)
       IN IF v # 0 THEN v ELSE findInScopesFrom(s, i - 1, childName)

findInScopes(s, childName) == findInScopesFrom(s, Len(s.scopes), childName)

\* The loop of findInParentClasses.  It ends with the implementation's link,
\* with 0 when the chain of prototypes ends, and never when the chain runs
\* into a cycle without the name: -1.
RECURSIVE parentClassLoop(_, _, _, _)
parentClassLoop(s, parentClass, name, seen) ==
  IF parentClass = 0 THEN 0
  ELSE LET implementation == findChild(s, s.L[parentClass].var, name)
       IN IF implementation # 0 THEN implementation
          ELSE IF parentClass \in seen THEN -1
          ELSE parentClassLoop(s, findChild(s, s.L[parentClass].var, TINYJS_PROTOTYPE_CLASS),
                               name, seen \cup {parentClass})

\* Interpreter::findInParentClasses
findInParentClasses(s, object, name) ==
  LET inChain == parentClassLoop(s, findChild(s, object, TINYJS_PROTOTYPE_CLASS), name, {})
      inString == IF isString(s.V[object]) THEN findChild(s, s.stringClass, name) ELSE 0
      inArray == IF isArray(s.V[object]) THEN findChild(s, s.arrayClass, name) ELSE 0
  IN IF inChain # 0 THEN inChain
     ELSE IF inString # 0 THEN inString
     ELSE IF inArray # 0 THEN inArray
     ELSE findChild(s, s.objectClass, name)

\* ------------------------------------------------------------------ the evaluator
\*
\* Every routine of the recursive-descent evaluator maps an interpreter state
\* to the state after the routine.  The VariableLink* a routine returns is left
\* in s.res, the routine's "bool &execute" is s.ex, and a thrown Exception is
\* s.err: a routine entered with an exception in flight does nothing, so the
\* test "IF s1.err # "OK" THEN s1 ELSE" after a step is the propagation of the
\* exception out of the routine.

RECURSIVE base(_)
RECURSIVE ternary(_)
RECURSIVE logic(_)
RECURSIVE condition(_)
RECURSIVE shift(_)
RECURSIVE expression(_)
RECURSIVE term(_)
RECURSIVE unary(_)
RECURSIVE factor(_)
RECURSIVE factorAccess(_, _, _)
RECURSIVE objectInit(_, _)
RECURSIVE arrayInit(_, _, _)
RECURSIVE functionCall(_, _, _)
RECURSIVE parseFunctionDefinition(_)
RECURSIVE block(_)
RECURSIVE statement(_)
RECURSIVE execute(_, _)
RECURSIVE evaluateComplex(_, _)
RECURSIVE callNative(_, _, _)

s_length == <<"l","e","n","g","t","h">>

\* new VariableLink(s.nv) as a routine's result
linkNew(s) == invoke("resultLink", s, <<s.nv, TINYJS_TEMP_NAME>>)

\* the routine's result is the link a
returning(s, a) == [s EXCEPT !.res = a]

\* "if (l->tk != close) l->match(',')"
matchCommaUnless(s, close) ==
  IF s.err = "OK" /\ tk(s) # close THEN invoke("match", s, <<",">>) ELSE s

\* an optional "(" ")" after a class name
matchEmptyParens(s) ==
  IF s.err # "OK" \/ tk(s) # "(" THEN s
  ELSE LET s1 == invoke("match", s, <<"(">>) IN IF s1.err # "OK" THEN s1 ELSE invoke("match", s1, <<")">>)

\* Interpreter::factor, record access: the child of a->var called name
recordAccess(s, a, name) ==
  LET var == s.L[a].var
      own == findChild(s, var, name)
      child == IF own # 0 THEN own ELSE invoke("findInParentClasses", s, <<var, name>>)
  IN IF child = -1 THEN throw(s, "HANG")
     ELSE IF child # 0 THEN returning(s, child)
     ELSE IF isArray(s.V[var]) /\ name = s_length
     THEN invoke("linkNew", newVariableInt(s, invoke("getArrayLength", s, <<var>>)), <<>>)
     ELSE IF isString(s.V[var]) /\ name = s_length
     THEN invoke("linkNew", newVariableInt(s, Len(getString(s.V[var]))), <<>>)
     ELSE LET t == invoke("addChildNew", s, <<var, name>>) IN returning(t, t.nl)

\* Interpreter::factor, array access: the child of a->var named by the index
arrayAccess(s, a, index) ==
  LET ivar == s.L[index].var
      s1 == invoke("getStringStore", s, <<ivar>>)
      s2 == invoke("findChildOrCreate", s1, <<s1.L[a].var, getString(s1.V[ivar]), VARIABLE_UNDEFINED>>)
  IN returning(s2, s2.nl)

\* Interpreter::factor, a call after an identifier
factorAccessCall(s, a, parent) ==
  LET s1 == invoke("functionCall", s, <<a, parent>>)
  IN CASE s1.err # "OK" -> s1
       [] OTHER -> invoke("factorAccess", s1, <<s1.res, parent>>)

\* Interpreter::factor, "." and a name after an identifier
factorAccessDot(s, a, parent) ==
  LET s1 == invoke("match", s, <<".">>)
      s2 == IF s.ex THEN invoke("recordAccess", s1, <<a, tkStr(s1)>>) ELSE returning(s1, a)
      s3 == invoke("match", s2, <<LEXER_ID>>)
  IN CASE s1.err # "OK" -> s1
       [] s2.err # "OK" -> s2
       [] s3.err # "OK" -> s3
       [] OTHER -> invoke("factorAccess", s3, <<s2.res, IF s.ex THEN s1.L[a].var ELSE parent>>)

\* Interpreter::factor, "[" index "]" after an identifier
factorAccessIndex(s, a, parent) ==
  LET s1 == invoke("match", s, <<"[">>)
      s2 == invoke("base", s1, <<>>)
      s3 == invoke("match", s2, <<"]">>)
      index == s2.res
      s4 == IF s3.ex THEN invoke("arrayAccess", s3, <<a, index>>) ELSE returning(s3, a)
      s5 == invoke("CLEAN", s4, <<index>>)
  IN CASE s1.err # "OK" -> s1
       [] s2.err # "OK" -> s2
       [] s3.err # "OK" -> s3
       [] s4.err # "OK" -> s4
       [] s5.err # "OK" -> s5
       [] OTHER -> invoke("factorAccess", s5, <<s4.res, IF s3.ex THEN s3.L[a].var ELSE parent>>)

\* Interpreter::factor, the loop over "(", "." and "[" after an identifier
factorAccess(s, a, parent) ==
  CASE s.err # "OK" -> s
    [] tk(s) = "(" -> factorAccessCall(s, a, parent)
    [] tk(s) = "." -> factorAccessDot(s, a, parent)
    [] tk(s) = "[" -> factorAccessIndex(s, a, parent)
    [] OTHER -> returning(s, a)

\* contents->addChild(id, a->var); CLEAN(a) for the link a that base() returned
addInitialiser(s, contents, id) ==
  LET a == s.res
  IN IF a = 0 THEN crash(s)
     ELSE LET s1 == invoke("addChild", s, <<contents, id, s.L[a].var>>)
          IN CASE s1.err # "OK" -> s1
               [] OTHER -> invoke("CLEAN", s1, <<a>>)

\* Interpreter::factor, the loop of the object initialiser
objectInit(s, contents) ==
  IF s.err # "OK" \/ tk(s) = "}" THEN s
  ELSE
    LET id == tkStr(s)
        s1 == IF tk(s) = LEXER_STR THEN invoke("match", s, <<LEXER_STR>>) ELSE invoke("match", s, <<LEXER_ID>>)
        s2 == invoke("match", s1, <<":">>)
        s3 == IF s.ex THEN invoke("base", s2, <<>>) ELSE s2
        s4 == IF s.ex THEN invoke("addInitialiser", s3, <<contents, id>>) ELSE s3
        s5 == invoke("matchCommaUnless", s4, <<"}">>)
    IN CASE s1.err # "OK" -> s1
         [] s2.err # "OK" -> s2
         [] s3.err # "OK" -> s3
         [] s4.err # "OK" -> s4
         [] s5.err # "OK" -> s5
         [] OTHER -> invoke("objectInit", s5, <<contents>>)

\* Interpreter::factor, the loop of the array initialiser
arrayInit(s, contents, idx) ==
  IF s.err # "OK" \/ tk(s) = "]" THEN s
  ELSE
    LET s3 == IF s.ex THEN invoke("base", s, <<>>) ELSE s
        s4 == IF s.ex THEN invoke("addInitialiser", s3, <<contents, intToStr(idx)>>) ELSE s3
        s5 == invoke("matchCommaUnless", s4, <<"]">>)
    IN CASE s3.err # "OK" -> s3
         [] s4.err # "OK" -> s4
         [] s5.err # "OK" -> s5
         [] OTHER -> invoke("arrayInit", s5, <<contents, idx + 1>>)

\* Interpreter::factor, "new" when executing and the class name is known
newObject(s, objClassOrFunc) ==
  LET s2 == invoke("match", s, <<LEXER_ID>>)
      s3 == invoke("newVariableOf", s2, <<TINYJS_BLANK_DATA, VARIABLE_OBJECT>>)
      obj == s3.nv
      s4 == newVariableLink(s3, obj, TINYJS_TEMP_NAME)
  IN CASE s2.err # "OK" -> s2
       [] s3.err # "OK" -> s3
       [] s4.err # "OK" -> s4
       [] OTHER -> LET objLink == s4.nl
      cls == s4.L[objClassOrFunc].var
  IN IF isFunction(s4.V[cls])
     THEN LET s5 == invoke("functionCall", s4, <<objClassOrFunc, obj>>)
              s6 == invoke("CLEAN", s5, <<s5.res>>)
          IN CASE s5.err # "OK" -> s5
               [] s6.err # "OK" -> s6
               [] OTHER -> returning(s6, objLink)
     ELSE LET s5 == invoke("addChild", s4, <<obj, TINYJS_PROTOTYPE_CLASS, cls>>)
              s6 == invoke("matchEmptyParens", s5, <<>>)
          IN CASE s5.err # "OK" -> s5
               [] s6.err # "OK" -> s6
               [] OTHER -> returning(s6, objLink)

\* Interpreter::factor, the "new" expression
factorNew(s) ==
  LET s1 == invoke("match", s, <<"new">>)
  IN CASE s1.err # "OK" -> s1
       [] OTHER -> IF s.ex
  THEN LET objClassOrFunc == findInScopes(s1, tkStr(s1))
       IN IF objClassOrFunc = 0 THEN invoke("linkNew", newVariable(s1), <<>>)
          ELSE newObject(s1, objClassOrFunc)
  ELSE LET s2 == invoke("match", s1, <<LEXER_ID>>)
           s3 == invoke("matchEmptyParens", s2, <<>>)
           s4 == invoke("match", s3, <<LEXER_EOF>>)
       IN CASE s2.err # "OK" -> s2
            [] s3.err # "OK" -> s3
            [] s4.err # "OK" -> s4
            [] OTHER -> returning(s4, 0)

\* Interpreter::factor, an identifier
factorId(s) ==
  LET found == IF s.ex THEN findInScopes(s, tkStr(s)) ELSE 0
      s1 == IF ~s.ex THEN invoke("linkNew", newVariable(s), <<>>)
        ELSE IF found # 0 THEN returning(s, found)
        ELSE LET t == newVariable(s) IN invoke("resultLink", t, <<t.nv, tkStr(s)>>)
      s2 == invoke("match", s1, <<LEXER_ID>>)
  IN CASE s1.err # "OK" -> s1
       [] s2.err # "OK" -> s2
       [] OTHER -> invoke("factorAccess", s2, <<s1.res, 0>>)

\* Interpreter::factor, the literals: new Variable(l->tkStr, flags), match,
\* new VariableLink
factorLiteral(s, varFlags, expected_tk) ==
  LET s1 == invoke("newVariableOf", s, <<tkStr(s), varFlags>>)
      s2 == invoke("match", s1, <<expected_tk>>)
  IN CASE s1.err # "OK" -> s1
       [] s2.err # "OK" -> s2
       [] OTHER -> invoke("resultLink", s2, <<s1.nv, TINYJS_TEMP_NAME>>)

\* Interpreter::factor, the object and the array initialiser
factorInit(s, open) ==
  LET s1 == invoke("newVariableOf", s, <<TINYJS_BLANK_DATA, IF open = "{" THEN VARIABLE_OBJECT ELSE VARIABLE_ARRAY>>)
      contents == s1.nv
      s2 == invoke("match", s1, <<open>>)
      s3 == IF open = "{" THEN invoke("objectInit", s2, <<contents>>) ELSE invoke("arrayInit", s2, <<contents, 0>>)
      s4 == invoke("match", s3, <<IF open = "{" THEN "}" ELSE "]">>)
  IN CASE s1.err # "OK" -> s1
       [] s2.err # "OK" -> s2
       [] s3.err # "OK" -> s3
       [] s4.err # "OK" -> s4
       [] OTHER -> invoke("resultLink", s4, <<contents, TINYJS_TEMP_NAME>>)

\* Interpreter::factor, a parenthesised expression
factorParens(s) ==
  LET s1 == invoke("match", s, <<"(">>)
      s2 == invoke("base", s1, <<>>)
  IN CASE s1.err # "OK" -> s1
       [] s2.err # "OK" -> s2
       [] OTHER -> invoke("match", s2, <<")">>)

\* Interpreter::factor
factor(s) ==
  CASE s.err # "OK" -> s
    [] tk(s) = "(" -> factorParens(s)
    [] tk(s) = "true" -> invoke("linkNew", newVariableInt(invoke("match", s, <<"true">>), 1), <<>>)
    [] tk(s) = "false" -> invoke("linkNew", newVariableInt(invoke("match", s, <<"false">>), 0), <<>>)
    [] tk(s) = "null" -> invoke("linkNew", invoke("newVariableOf", invoke("match", s, <<"null">>), <<TINYJS_BLANK_DATA, VARIABLE_NULL>>), <<>>)
    [] tk(s) = "undefined"
         -> invoke("linkNew", invoke("newVariableOf", invoke("match", s, <<"undefined">>), <<TINYJS_BLANK_DATA, VARIABLE_UNDEFINED>>), <<>>)
    [] tk(s) = LEXER_ID -> factorId(s)
    [] tk(s) = LEXER_INT -> invoke("factorLiteral", s, <<VARIABLE_INTEGER, LEXER_INT>>)
    [] tk(s) = LEXER_FLOAT -> invoke("factorLiteral", s, <<VARIABLE_DOUBLE, LEXER_FLOAT>>)
    [] tk(s) = LEXER_STR -> invoke("factorLiteral", s, <<VARIABLE_STRING, LEXER_STR>>)
    [] tk(s) \in {"{", "["} -> factorInit(s, tk(s))
    [] tk(s) = "function" -> invoke("parseFunctionDefinition", s, <<>>)
    [] tk(s) = "new" -> factorNew(s)
    [] OTHER -> LET s1 == invoke("match", s, <<LEXER_EOF>>) IN IF s1.err # "OK" THEN s1 ELSE returning(s1, 0)

\* a routine called with the caller's local "bool noexecute = false"
baseNoExecute(s) ==
  LET t == invoke("base", [s EXCEPT !.ex = FALSE], <<>>) IN [t EXCEPT !.ex = s.ex]

conditionNoExecute(s) ==
  LET t == invoke("condition", [s EXCEPT !.ex = FALSE], <<>>) IN [t EXCEPT !.ex = s.ex]

statementNoExecute(s) ==
  LET t == invoke("statement", [s EXCEPT !.ex = FALSE], <<>>) IN [t EXCEPT !.ex = s.ex]

\* "CLEAN(base(noexecute))"
cleanBaseNoExecute(s) ==
  LET t == invoke("baseNoExecute", s, <<>>) IN IF t.err # "OK" THEN t ELSE invoke("CLEAN", t, <<t.res>>)

\* "Variable zero(0)", "Variable one(1)"
localInt(val) == setIntR(BlankVar, val)

\* The step the binary operators share: res = a->var->mathsOp(b->var, op);
\* CREATE_LINK(a, res).  The link is left in s.res.
applyOp(s, a, b, op) ==
  IF a = 0 \/ b = 0 THEN crash(s)
  ELSE LET s1 == invoke("mathsOp", s, <<s.L[a].var, s.L[b].var, op>>)
       IN IF s1.err # "OK" THEN s1 ELSE invoke("CREATE_LINK", s1, <<a, s1.nv>>)

\* res = a->var->mathsOp(&local, op), or local.mathsOp(a->var, op), and
\* CREATE_LINK(a, res)
applyLocalOp(s, a, local, op, localIsReceiver) ==
  IF a = 0 THEN crash(s)
  ELSE LET s1 == invoke("mathsOpLocal", s, <<local, s.L[a].var, op, localIsReceiver>>)
       IN IF s1.err # "OK" THEN s1 ELSE invoke("CREATE_LINK", s1, <<a, s1.nv>>)

\* "if (execute) { res = a->var->mathsOp(b->var, op); CREATE_LINK(a, res); }
\* CLEAN(b);" with the link a as the result
binaryStep(s, a, op) ==
  LET b == s.res
      s1 == IF s.ex THEN invoke("applyOp", s, <<a, b, op>>) ELSE returning(s, a)
      s2 == invoke("CLEAN", s1, <<b>>)
  IN CASE s1.err # "OK" -> s1
       [] s2.err # "OK" -> s2
       [] OTHER -> returning(s2, s1.res)

\* Interpreter::unary
unary(s) ==
  IF s.err # "OK" THEN s
  ELSE IF tk(s) = "!" THEN
    LET s1 == invoke("match", s, <<"!">>)
        s2 == invoke("factor", s1, <<>>)
    IN CASE s1.err # "OK" -> s1
         [] s2.err # "OK" -> s2
         [] OTHER -> IF s2.ex THEN invoke("applyLocalOp", s2, <<s2.res, localInt(0), "==", FALSE>>) ELSE s2
  ELSE invoke("factor", s, <<>>)

\* Interpreter::term, the loop
RECURSIVE termLoop(_, _)
termLoop(s, a) ==
  IF s.err # "OK" THEN s
  ELSE IF tk(s) \in {"*", "/", "%"} THEN
    LET s1 == invoke("match", s, <<tk(s)>>)
        s2 == invoke("unary", s1, <<>>)
        s3 == invoke("binaryStep", s2, <<a, tk(s)>>)
    IN CASE s1.err # "OK" -> s1
         [] s2.err # "OK" -> s2
         [] s3.err # "OK" -> s3
         [] OTHER -> invoke("termLoop", s3, <<s3.res>>)
  ELSE returning(s, a)

\* Interpreter::term
termAfter(s1) == IF s1.err # "OK" THEN s1 ELSE invoke("termLoop", s1, <<s1.res>>)

term(s) == termAfter(unary(s))

\* a variant of postfix whose result is a link to the new value
postfixNewValue(s, a, op) ==
  IF a = 0 THEN crash(s)
  ELSE LET s1 == invoke("mathsOpLocal", s, <<localInt(1), s.L[a].var, IF op = "++" THEN "+" ELSE "-", FALSE>>)
           res == s1.nv
           s2 == newVariableLink(s1, res, TINYJS_TEMP_NAME)
           newValue == s2.nl
           s3 == invoke("replaceWith", s2, <<a, res>>)
           s4 == invoke("CLEAN", s3, <<a>>)
       IN CASE s1.err # "OK" -> s1
            [] s2.err # "OK" -> s2
            [] s3.err # "OK" -> s3
            [] s4.err # "OK" -> s4
            [] OTHER -> returning(s4, newValue)

\* Interpreter::expression, the postfix ++ and -- on the link a
postfix(s, a, op) ==
  IF a = 0 THEN crash(s)
  ELSE LET s1 == invoke("mathsOpLocal", s, <<localInt(1), s.L[a].var, IF op = "++" THEN "+" ELSE "-", FALSE>>)
           res == s1.nv
           s2 == newVariableLink(s1, s1.L[a].var, TINYJS_TEMP_NAME)
           oldValue == s2.nl
           s3 == invoke("replaceWith", s2, <<a, res>>)
           s4 == invoke("CLEAN", s3, <<a>>)
       IN CASE s1.err # "OK" -> s1
            [] s2.err # "OK" -> s2
            [] s3.err # "OK" -> s3
            [] s4.err # "OK" -> s4
            [] OTHER -> returning(s4, oldValue)

\* Interpreter::expression, the loop
RECURSIVE expressionLoop(_, _)
expressionLoop(s, a) ==
  IF s.err # "OK" THEN s
  ELSE IF tk(s) \in {"++", "--"} THEN
    LET s1 == invoke("match", s, <<tk(s)>>)
        s2 == IF s1.ex THEN invoke("postfix", s1, <<a, tk(s)>>) ELSE returning(s1, a)
    IN CASE s1.err # "OK" -> s1
         [] s2.err # "OK" -> s2
         [] OTHER -> invoke("expressionLoop", s2, <<s2.res>>)
  ELSE IF tk(s) \in {"+", "-"} THEN
    LET s1 == invoke("match", s, <<tk(s)>>)
        s2 == invoke("term", s1, <<>>)
        s3 == invoke("binaryStep", s2, <<a, tk(s)>>)
    IN CASE s1.err # "OK" -> s1
         [] s2.err # "OK" -> s2
         [] s3.err # "OK" -> s3
         [] OTHER -> invoke("expressionLoop", s3, <<s3.res>>)
  ELSE returning(s, a)

\* Interpreter::expression
expressionAfter(s2, negate) ==
  IF s2.err # "OK" THEN s2 ELSE
  LET s3 == IF negate THEN invoke("applyLocalOp", s2, <<s2.res, localInt(0), "-", TRUE>>) ELSE s2
  IN CASE s3.err # "OK" -> s3
       [] OTHER -> invoke("expressionLoop", s3, <<s3.res>>)

expression(s) ==
  IF s.err # "OK" THEN s
  ELSE IF tk(s) = "-" THEN expressionAfter(term(invoke("match", s, <<"-">>)), TRUE)
  ELSE expressionAfter(term(s), FALSE)

\* 2^n
RECURSIVE pow2(_)
pow2(n) == IF n = 0 THEN 1 ELSE 2 * pow2(n - 1)

\* the value of the int a shifted by op on a 32-bit two-complement machine,
\* for a shift count in 0..30 and a result that fits an int
shifted(op, a, n) ==
  IF op = "<<" THEN a * pow2(n)
  ELSE IF op = ">>" \/ a >= 0 \/ n = 0 THEN a \div pow2(n)
  ELSE (a \div pow2(n)) + pow2(31 - n) + pow2(31 - n)

\* Interpreter::shift, after the right operand: the link a is the result
shiftStep(s, a, op) ==
  LET b == s.res
  IN IF s.ex /\ b = 0 THEN crash(s)
     ELSE
       LET n == IF s.ex THEN getInt(s.V[s.L[b].var]) ELSE 0
           s1 == invoke("CLEAN", s, <<b>>)
       IN CASE s1.err # "OK" -> s1
            [] OTHER -> IF ~s1.ex THEN returning(s1, a)
       ELSE IF a = 0 THEN crash(s1)
       ELSE IF n < 0 \/ n > 30 THEN returning(undefinedBehaviour(s1), a)
       ELSE LET av == s1.L[a].var
            IN returning(setInt(s1, av, shifted(op, getInt(s1.V[av]), n)), a)

\* Interpreter::shift
shiftAfter(s1) ==
  IF s1.err # "OK" THEN s1 ELSE
  IF tk(s1) \in {"<<", ">>", ">>>"} THEN
    LET s2 == invoke("match", s1, <<tk(s1)>>)
        s3 == invoke("base", s2, <<>>)
    IN CASE s2.err # "OK" -> s2
         [] s3.err # "OK" -> s3
         [] OTHER -> invoke("shiftStep", s3, <<s1.res, tk(s1)>>)
  ELSE s1

shift(s) == shiftAfter(expression(s))

\* Interpreter::condition, the loop
RECURSIVE conditionLoop(_, _)
conditionLoop(s, a) ==
  IF s.err # "OK" THEN s
  ELSE IF tk(s) \in {"==", "!=", "===", "!==", "<=", ">=", "<", ">"} THEN
    LET s1 == invoke("match", s, <<tk(s)>>)
        s2 == invoke("shift", s1, <<>>)
        s3 == invoke("binaryStep", s2, <<a, tk(s)>>)
    IN CASE s1.err # "OK" -> s1
         [] s2.err # "OK" -> s2
         [] s3.err # "OK" -> s3
         [] OTHER -> invoke("conditionLoop", s3, <<s3.res>>)
  ELSE returning(s, a)

\* Interpreter::condition
conditionAfter(s1) == IF s1.err # "OK" THEN s1 ELSE invoke("conditionLoop", s1, <<s1.res>>)

condition(s) == conditionAfter(shift(s))

\* Interpreter::logic, "newa = new Variable(a->var->getBool()); newb = new
\* Variable(b->var->getBool()); CREATE_LINK(a, newa); CREATE_LINK(b, newb)":
\* the link a is left in s.res and the link b in s.nl
toBooleans(s, a, b) ==
  LET s1 == newVariableBool(s, getBool(s.V[s.L[a].var]))
      newa == s1.nv
      s2 == newVariableBool(s1, getBool(s1.V[s1.L[b].var]))
      newb == s2.nv
      s3 == invoke("CREATE_LINK", s2, <<a, newa>>)
      a1 == s3.res
      s4 == invoke("CREATE_LINK", s3, <<b, newb>>)
  IN CASE s1.err # "OK" -> s1
       [] s2.err # "OK" -> s2
       [] s3.err # "OK" -> s3
       [] s4.err # "OK" -> s4
       [] OTHER -> [s4 EXCEPT !.res = a1, !.nl = s4.res]

\* Interpreter::logic, the body of the loop after the right operand
logicStep(s, a, op, boolean, shortCircuit) ==
  LET b == s.res
  IN IF s.ex /\ ~shortCircuit
     THEN IF a = 0 \/ b = 0 THEN crash(s)
          ELSE LET s1 == IF boolean THEN invoke("toBooleans", s, <<a, b>>)
                     ELSE [s EXCEPT !.res = a, !.nl = b]
                   b1 == s1.nl
                   s2 == invoke("applyOp", s1, <<s1.res, b1, op>>)
                   s3 == invoke("CLEAN", s2, <<b1>>)
               IN CASE s1.err # "OK" -> s1
                    [] s2.err # "OK" -> s2
                    [] s3.err # "OK" -> s3
                    [] OTHER -> returning(s3, s2.res)
     ELSE LET s1 == invoke("CLEAN", s, <<b>>) IN IF s1.err # "OK" THEN s1 ELSE returning(s1, a)

\* Interpreter::logic, the loop
RECURSIVE logicLoop(_, _)
logicLoop(s, a) ==
  IF s.err # "OK" THEN s
  ELSE IF tk(s) \in {"&", "|", "^", "&&", "||"} THEN
    LET tok == tk(s)
        s1 == invoke("match", s, <<tok>>)
    IN CASE s1.err # "OK" -> s1
         [] OTHER -> IF tok \in {"&&", "||"} /\ a = 0 THEN crash(s1)
    ELSE
      LET boolean == tok \in {"&&", "||"}
          op == IF tok = "&&" THEN "&" ELSE IF tok = "||" THEN "|" ELSE tok
          shortCircuit == IF tok = "&&" THEN ~getBool(s1.V[s1.L[a].var])
            ELSE IF tok = "||" THEN getBool(s1.V[s1.L[a].var])
            ELSE FALSE
          s2 == IF shortCircuit THEN invoke("conditionNoExecute", s1, <<>>) ELSE invoke("condition", s1, <<>>)
          s3 == invoke("logicStep", s2, <<a, op, boolean, shortCircuit>>)
      IN CASE s2.err # "OK" -> s2
           [] s3.err # "OK" -> s3
           [] OTHER -> invoke("logicLoop", s3, <<s3.res>>)
  ELSE returning(s, a)

\* Interpreter::logic
logicAfter(s1) == IF s1.err # "OK" THEN s1 ELSE invoke("logicLoop", s1, <<s1.res>>)

logic(s) == logicAfter(condition(s))

\* Interpreter::ternary, "if (!execute)": both branches are parsed only, and
\* the link lhs, which CLEAN may have deleted, is the result
ternarySkip(s, lhs) ==
  LET s1 == invoke("CLEAN", s, <<lhs>>)
      s2 == invoke("cleanBaseNoExecute", s1, <<>>)
      s3 == invoke("match", s2, <<":">>)
      s4 == invoke("cleanBaseNoExecute", s3, <<>>)
  IN CASE s1.err # "OK" -> s1
       [] s2.err # "OK" -> s2
       [] s3.err # "OK" -> s3
       [] s4.err # "OK" -> s4
       [] OTHER -> returning(s4, lhs)

\* Interpreter::ternary, "else": one branch is executed, the other parsed
ternaryChoose(s, lhs) ==
  IF lhs = 0 THEN crash(s)
  ELSE
    LET first == getBool(s.V[s.L[lhs].var])
        s1 == invoke("CLEAN", s, <<lhs>>)
    IN CASE s1.err # "OK" -> s1
         [] OTHER -> IF first
    THEN LET s2 == invoke("base", s1, <<>>)
             s3 == invoke("match", s2, <<":">>)
             s4 == invoke("cleanBaseNoExecute", s3, <<>>)
         IN CASE s2.err # "OK" -> s2
              [] s3.err # "OK" -> s3
              [] s4.err # "OK" -> s4
              [] OTHER -> returning(s4, s2.res)
    ELSE LET s2 == invoke("cleanBaseNoExecute", s1, <<>>)
             s3 == invoke("match", s2, <<":">>)
         IN CASE s2.err # "OK" -> s2
              [] s3.err # "OK" -> s3
              [] OTHER -> invoke("base", s3, <<>>)

\* Interpreter::ternary
ternaryAfter(s1) ==
  IF s1.err # "OK" THEN s1 ELSE
  IF tk(s1) # "?" THEN s1
  ELSE LET s2 == invoke("match", s1, <<"?">>)
       IN CASE s2.err # "OK" -> s2
            [] OTHER -> IF ~s2.ex THEN invoke("ternarySkip", s2, <<s1.res>>) ELSE invoke("ternaryChoose", s2, <<s1.res>>)

ternary(s) == ternaryAfter(logic(s))

\* History of the assignments to names that no scope holds: s.adopted gets
\* the name of every left side that was bound on assignment
logAdoption(s, name) == [s EXCEPT !.adopted = @ \cup {name}]

\* a variant of adoptByRoot that binds the name in the innermost scope
adoptByFrame(s, lhs) ==
  LET s1 == invoke("addChildNoDup", logAdoption(s, s.L[lhs].name), <<s.scopes[Len(s.scopes)], s.L[lhs].name, s.L[lhs].var>>)
      realLhs == s1.nl
      s2 == invoke("CLEAN", s1, <<lhs>>)
  IN CASE s1.err # "OK" -> s1
       [] s2.err # "OK" -> s2
       [] OTHER -> returning(s2, realLhs)

\* Interpreter::base, "realLhs = root->addChildNoDup(lhs->name, lhs->var);
\* CLEAN(lhs); lhs = realLhs"
adoptByRoot(s, lhs) ==
  LET s1 == invoke("addChildNoDup", logAdoption(s, s.L[lhs].name), <<s.root, s.L[lhs].name, s.L[lhs].var>>)
      realLhs == s1.nl
      s2 == invoke("CLEAN", s1, <<lhs>>)
  IN CASE s1.err # "OK" -> s1
       [] s2.err # "OK" -> s2
       [] OTHER -> returning(s2, realLhs)

\* Interpreter::base, the assignment to the link lhs of the link s.res
assign(s, lhs, op) ==
  LET rhs == s.res
      s1 == IF ~s.ex THEN s
            ELSE IF op = "=" THEN invoke("replaceWithLink", s, <<lhs, rhs>>)
            ELSE IF rhs = 0 THEN crash(s)
            ELSE LET t == invoke("mathsOp", s, <<s.L[lhs].var, s.L[rhs].var, IF op = "+=" THEN "+" ELSE "-">>)
                 IN IF t.err # "OK" THEN t ELSE invoke("replaceWith", t, <<lhs, t.nv>>)
  IN IF s1.err # "OK" THEN s1 ELSE
  LET s2 == invoke("CLEAN", s1, <<rhs>>)
  IN CASE s2.err # "OK" -> s2
       [] OTHER -> returning(s2, lhs)

\* Interpreter::base
baseAfter(s1) ==
  IF s1.err # "OK" THEN s1 ELSE
  IF tk(s1) \notin {"=", "+=", "-="} THEN s1
  ELSE IF s1.ex /\ s1.res = 0 THEN crash(s1)
  ELSE
    LET lhs0 == s1.res
        s2 == IF s1.ex /\ ~s1.L[lhs0].owned /\ Len(s1.L[lhs0].name) > 0
          THEN invoke("adoptByRoot", s1, <<lhs0>>)
          ELSE s1
        s3 == invoke("match", s2, <<tk(s2)>>)
        s4 == invoke("base", s3, <<>>)
    IN CASE s2.err # "OK" -> s2
         [] s3.err # "OK" -> s3
         [] s4.err # "OK" -> s4
         [] OTHER -> invoke("assign", s4, <<s2.res, tk(s2)>>)

base(s) == baseAfter(ternary(s))

s_this == <<"t","h","i","s">>

\* Interpreter::parseFunctionArguments, the loop
RECURSIVE parseFunctionArgumentsLoop(_, _)
parseFunctionArgumentsLoop(s, funcVar) ==
  IF s.err # "OK" \/ tk(s) = ")" THEN s
  ELSE
    LET s1 == invoke("addChildNoDupNew", s, <<funcVar, tkStr(s)>>)
        s2 == invoke("match", s1, <<LEXER_ID>>)
        s3 == invoke("matchCommaUnless", s2, <<")">>)
    IN CASE s1.err # "OK" -> s1
         [] s2.err # "OK" -> s2
         [] s3.err # "OK" -> s3
         [] OTHER -> invoke("parseFunctionArgumentsLoop", s3, <<funcVar>>)

\* Interpreter::parseFunctionArguments
parseFunctionArguments(s, funcVar) ==
  LET s1 == invoke("match", s, <<"(">>)
      s2 == invoke("parseFunctionArgumentsLoop", s1, <<funcVar>>)
  IN CASE s1.err # "OK" -> s1
       [] s2.err # "OK" -> s2
       [] OTHER -> invoke("match", s2, <<")">>)

\* Interpreter::parseFunctionDefinition, from the new link funcVar on
functionBody(s, funcVar) ==
  LET s1 == invoke("parseFunctionArguments", s, <<s.L[funcVar].var>>)
      funcBegin == lex(s1).tokenStart
      s2 == invoke("block", [s1 EXCEPT !.ex = FALSE], <<>>)
  IN CASE s1.err # "OK" -> s1
       [] s2.err # "OK" -> s2
       [] OTHER -> [s2 EXCEPT !.V[s2.L[funcVar].var].data = getSubString(lex(s2), funcBegin),
             !.ex = s.ex, !.res = funcVar]

\* Interpreter::parseFunctionDefinition
parseFunctionDefinition(s) ==
  LET s1 == invoke("match", s, <<"function">>)
      named == tk(s1) = LEXER_ID
      funcName == IF named THEN tkStr(s1) ELSE TINYJS_TEMP_NAME
      s2 == IF named THEN invoke("match", s1, <<LEXER_ID>>) ELSE s1
      s3 == invoke("newVariableOf", s2, <<TINYJS_BLANK_DATA, VARIABLE_FUNCTION>>)
      s4 == newVariableLink(s3, s3.nv, funcName)
  IN CASE s1.err # "OK" -> s1
       [] s2.err # "OK" -> s2
       [] s3.err # "OK" -> s3
       [] s4.err # "OK" -> s4
       [] OTHER -> functionBody(s4, s4.nl)

\* History of the parameter bindings: s.binds gets one record for every
\* argument bound in a call, with the kind of the argument's value and whether
\* the call frame holds the caller's Value itself.
logBinding(s, var, bound) ==
  [s EXCEPT !.binds = @ \cup {[compound |-> isObject(s.V[var]) \/ isArray(s.V[var])
                                              \/ isFunction(s.V[var]),
                               children |-> s.V[var].firstChild # 0,
                               shared |-> bound = var]}]

\* Interpreter::functionCall, one parameter: the argument's value is copied
\* when isBasic() holds of it and shared otherwise
bindParameter(s, v, functionRoot) ==
  LET value == s.res
  IN IF ~s.ex THEN invoke("CLEAN", s, <<value>>)
     ELSE IF value = 0 THEN crash(s)
     ELSE
       LET var == s.L[value].var
           s1 == IF isBasic(s.V[var]) THEN invoke("deepCopy", s, <<var>>) ELSE [s EXCEPT !.nv = var]
           s2 == invoke("addChild", logBinding(s1, var, s1.nv), <<functionRoot, s1.L[v].name, s1.nv>>)
       IN CASE s1.err # "OK" -> s1
            [] s2.err # "OK" -> s2
            [] OTHER -> invoke("CLEAN", s2, <<value>>)

\* Interpreter::functionCall, the loop that binds the parameters
RECURSIVE bindParameters(_, _, _)
bindParameters(s, v, functionRoot) ==
  IF s.err # "OK" \/ v = 0 THEN s
  ELSE
    LET s1 == invoke("base", s, <<>>)
        s2 == invoke("bindParameter", s1, <<v, functionRoot>>)
        s3 == invoke("matchCommaUnless", s2, <<")">>)
    IN CASE s1.err # "OK" -> s1
         [] s2.err # "OK" -> s2
         [] s3.err # "OK" -> s3
         [] OTHER -> invoke("bindParameters", s3, <<s3.L[v].nextSibling, functionRoot>>)

\* Interpreter::functionCall, the loop that skips the arguments
RECURSIVE skipArguments(_)
skipArguments(s) ==
  IF s.err # "OK" \/ tk(s) = ")" THEN s
  ELSE
    LET s1 == invoke("base", s, <<>>)
        s2 == invoke("CLEAN", s1, <<s1.res>>)
        s3 == invoke("matchCommaUnless", s2, <<")">>)
    IN CASE s1.err # "OK" -> s1
         [] s2.err # "OK" -> s2
         [] s3.err # "OK" -> s3
         [] OTHER -> invoke("skipArguments", s3, <<>>)

\* Interpreter::functionCall, the body of a function of the script: it runs
\* on a lexer of its own, which is deleted, and the caller's lexer is put
\* back, whether the block returns or throws
callScript(s, fvar) ==
  LET oldLex == s.l
      s1 == newLexer(s, invoke("LexerOfString", getString(s.V[fvar]), <<>>))
      newLex == s1.nx
      s2 == invoke("block", [s1 EXCEPT !.l = newLex], <<>>)
      s3 == deleteLexer(s2, newLex)
  IN CASE s1.err # "OK" -> s1
       [] s2.err \in {"ABORT", "HANG"} -> s2
       [] OTHER -> [s3 EXCEPT !.l = oldLex, !.ex = IF Thrown(s2) THEN s2.ex ELSE TRUE]

\* the child links of a Value, from the link k on
RECURSIVE childLinks(_, _)
childLinks(s, k) == IF k = 0 THEN {} ELSE {k} \cup childLinks(s, s.L[k].nextSibling)

\* the names of the children of the Value var
childNames(s, var) == {s.L[k].name : k \in childLinks(s, s.V[var].firstChild)}

\* History of the call frames: s.frames gets one record for every call that
\* returns, with the names the frame holds when it is popped
logFrame(s, functionRoot) ==
  [s EXCEPT !.frames = @ \cup {[depth |-> Len(s.scopes) - 1,
                                 names |-> childNames(s, functionRoot)]}]

\* Interpreter::functionCall, after the callee has returned: the scope is
\* popped and the return value moves to a new link
functionReturn(s, functionRoot, returnVarLink) ==
  LET s1 == [logFrame(s, functionRoot) EXCEPT !.scopes = SubSeq(@, 1, Len(@) - 1)]
      s2 == newVariableLink(s1, s1.L[returnVarLink].var, TINYJS_TEMP_NAME)
      returnVar == s2.nl
      s3 == invoke("removeLink", s2, <<functionRoot, returnVarLink>>)
      s4 == invoke("deleteVariable", s3, <<functionRoot>>)
  IN CASE s2.err # "OK" -> s2
       [] s3.err # "OK" -> s3
       [] s4.err # "OK" -> s4
       [] OTHER -> returning(s4, returnVar)

\* Interpreter::functionCall, "if (execute)" after the test of isFunction()
callFunction(s, fvar, parent) ==
  LET s0 == invoke("match", s, <<"(">>)
      s1 == invoke("newVariableOf", s0, <<TINYJS_BLANK_DATA, VARIABLE_FUNCTION>>)
      functionRoot == s1.nv
      s2 == IF parent # 0 THEN invoke("addChildNoDup", s1, <<functionRoot, s_this, parent>>) ELSE s1
      s3 == invoke("bindParameters", s2, <<s2.V[fvar].firstChild, functionRoot>>)
      s4 == invoke("match", s3, <<")">>)
      s5 == invoke("addChildNew", s4, <<functionRoot, TINYJS_RETURN_VAR>>)
      returnVarLink == s5.nl
      s6 == [s5 EXCEPT !.scopes = Append(@, functionRoot), !.ncalls = @ + 1]
      s7 == IF isNative(s6.V[fvar])
        THEN invoke("callNative", s6, <<functionRoot, s6.V[fvar].jsCallback>>)
        ELSE callScript(s6, fvar)
  IN CASE s0.err # "OK" -> s0
       [] s1.err # "OK" -> s1
       [] s2.err # "OK" -> s2
       [] s3.err # "OK" -> s3
       [] s4.err # "OK" -> s4
       [] s5.err # "OK" -> s5
       [] s7.err # "OK" -> s7
       [] OTHER -> invoke("functionReturn", s7, <<functionRoot, returnVarLink>>)

\* Interpreter::functionCall
functionCall(s, function, parent) ==
  CASE s.err # "OK" -> s
    [] s.ex /\ function = 0 -> crash(s)
    [] s.ex /\ ~isFunction(s.V[s.L[function].var]) -> throw(s, "NOT_A_FUNCTION")
    [] s.ex -> callFunction(s, s.L[function].var, parent)
    [] OTHER ->
    LET s1 == invoke("match", s, <<"(">>)
        s2 == invoke("skipArguments", s1, <<>>)
        s3 == invoke("match", s2, <<")">>)
        s4 == IF tk(s3) = "{" THEN invoke("block", s3, <<>>) ELSE s3
    IN CASE s1.err # "OK" -> s1
         [] s2.err # "OK" -> s2
         [] s3.err # "OK" -> s3
         [] s4.err # "OK" -> s4
         [] OTHER -> returning(s4, function)

\* Interpreter::block, "while (l->tk && l->tk!='}') statement(execute)"
RECURSIVE blockStatements(_)
blockStatements(s) ==
  IF s.err # "OK" \/ tk(s) \in {LEXER_EOF, "}"} THEN s
  ELSE LET s1 == invoke("statement", s, <<>>) IN IF s1.err # "OK" THEN s1 ELSE invoke("blockStatements", s1, <<>>)

\* Interpreter::block, the fast skip of a block that is not executed
RECURSIVE skipBlock(_, _)
skipBlock(s, brackets) ==
  IF s.err # "OK" \/ tk(s) = LEXER_EOF \/ brackets = 0 THEN s
  ELSE LET b1 == IF tk(s) = "{" THEN brackets + 1 ELSE brackets
           b2 == IF tk(s) = "}" THEN b1 - 1 ELSE b1
           s1 == invoke("match", s, <<tk(s)>>)
       IN IF s1.err # "OK" THEN s1 ELSE invoke("skipBlock", s1, <<b2>>)

\* Interpreter::block
block(s) ==
  LET s1 == invoke("match", s, <<"{">>)
      s2 == invoke("blockStatements", s1, <<>>)
  IN CASE s1.err # "OK" -> s1
       [] ~s1.ex -> invoke("skipBlock", s1, <<1>>)
       [] s2.err # "OK" -> s2
       [] OTHER -> invoke("match", s2, <<"}">>)

\* TINYJS_LOOP_MAX_ITERATIONS
LOOP_MAX_ITERATIONS == 8192

scopesBack(s) == s.scopes[Len(s.scopes)]

\* a sub-lexer is reset and made the current lexer
resetTo(s, x) == [s EXCEPT !.X[x] = invoke("reset", @, <<>>), !.l = x]

\* cond->var->getBool() of the link base() returned
linkBool(s, link) == getBool(s.V[s.L[link].var])

\* "CLEAN(base(execute))"
cleanBase(s) ==
  LET t == invoke("base", s, <<>>) IN IF t.err # "OK" THEN t ELSE invoke("CLEAN", t, <<t.res>>)

\* "cond = base(execute); loopCond = execute && cond->var->getBool();
\* CLEAN(cond)", and the same with "loopCond = cond->var->getBool()": the
\* condition's value is left in s.lp.loopCond
testCondition(s, needsExecute) ==
  LET s1 == invoke("base", s, <<>>)
  IN CASE s1.err # "OK" -> s1
       [] OTHER -> LET cond == s1.res
  IN IF (needsExecute => s1.ex) /\ cond = 0 THEN crash(s1)
     ELSE LET loopCond == (needsExecute => s1.ex) /\ linkBool(s1, cond)
              s2 == invoke("CLEAN", s1, <<cond>>)
          IN IF s2.err # "OK" THEN s2 ELSE [s2 EXCEPT !.lp.loopCond = loopCond]

\* "statement(loopCond ? execute : noexecute)"
statementIf(s, cond) == IF cond THEN invoke("statement", s, <<>>) ELSE statementNoExecute(s)

\* The locals of a loop statement, once its text has been parsed for the first
\* time: the three sub-lexers (0 where there is none), oldLex, loopCond,
\* loopCount.  They are left in s.lp.
loopLocals(kind, cond, iter, body, oldLex, loopCond) ==
  [kind |-> kind, cond |-> cond, iter |-> iter, body |-> body, oldLex |-> oldLex,
   loopCond |-> loopCond, loopCount |-> LOOP_MAX_ITERATIONS]

\* Interpreter::statement, while: from the keyword to "int loopCount = ..."
whileEnter(s) ==
  LET s1 == invoke("match", s, <<"while">>)
      s2 == invoke("match", s1, <<"(">>)
      whileCondStart == lex(s2).tokenStart
      s3 == invoke("testCondition", s2, <<TRUE>>)
      loopCond == s3.lp.loopCond
      s4 == invoke("getSubLex", s3, <<s3.l, whileCondStart>>)
      whileCond == s4.nx
      s5 == invoke("match", s4, <<")">>)
      whileBodyStart == lex(s5).tokenStart
      s6 == invoke("statementIf", s5, <<loopCond>>)
      s7 == invoke("getSubLex", s6, <<s6.l, whileBodyStart>>)
  IN CASE s1.err # "OK" -> s1
       [] s2.err # "OK" -> s2
       [] s3.err # "OK" -> s3
       [] s4.err # "OK" -> s4
       [] s5.err # "OK" -> s5
       [] s6.err # "OK" -> s6
       [] s7.err # "OK" -> s7
       [] OTHER -> [s7 EXCEPT !.lp = loopLocals("while", whileCond, 0, s7.nx, s7.l, loopCond)]

\* Interpreter::statement, for, from the condition to the sub-lexer of the
\* iterator
forHead(s) ==
  LET forCondStart == lex(s).tokenStart
      s3 == invoke("testCondition", s, <<TRUE>>)
      loopCond == s3.lp.loopCond
      s4 == invoke("getSubLex", s3, <<s3.l, forCondStart>>)
      forCond == s4.nx
      s5 == invoke("match", s4, <<";">>)
      forIterStart == lex(s5).tokenStart
      s6 == invoke("cleanBaseNoExecute", s5, <<>>)
      s7 == invoke("getSubLex", s6, <<s6.l, forIterStart>>)
  IN CASE s3.err # "OK" -> s3
       [] s4.err # "OK" -> s4
       [] s5.err # "OK" -> s5
       [] s6.err # "OK" -> s6
       [] s7.err # "OK" -> s7
       [] OTHER -> [s7 EXCEPT !.lp = loopLocals("for", forCond, s7.nx, 0, 0, loopCond)]

\* Interpreter::statement, for: from the keyword to "int loopCount = ..."
forEnter(s) ==
  LET s0 == invoke("match", s, <<"for">>)
      s1 == invoke("match", s0, <<"(">>)
      s2 == invoke("statement", s1, <<>>)
      s7 == invoke("forHead", s2, <<>>)
      lp == s7.lp
      s8 == invoke("match", s7, <<")">>)
      forBodyStart == lex(s8).tokenStart
      s9 == invoke("statementIf", s8, <<lp.loopCond>>)
      s10 == invoke("getSubLex", s9, <<s9.l, forBodyStart>>)
      forBody == s10.nx
      oldLex == s10.l
      s11 == IF lp.loopCond THEN invoke("cleanBase", invoke("resetTo", s10, <<lp.iter>>), <<>>) ELSE s10
  IN CASE s0.err # "OK" -> s0
       [] s1.err # "OK" -> s1
       [] s2.err # "OK" -> s2
       [] s7.err # "OK" -> s7
       [] s8.err # "OK" -> s8
       [] s9.err # "OK" -> s9
       [] s10.err # "OK" -> s10
       [] s11.err # "OK" -> s11
       [] OTHER -> [s11 EXCEPT !.lp = [lp EXCEPT !.body = forBody, !.oldLex = oldLex]]

\* the test of "while (loopCond && loopCount-->0)" and of
\* "while (execute && loopCond && loopCount-->0)": does the loop go on?
loopGoesOn(s, lp) ==
  (lp.kind = "for" => s.ex) /\ lp.loopCond /\ lp.loopCount > 0

\* a test that leaves loopCount as it is
loopCountKept(s, lp) == lp.loopCount

\* loopCount after the test: "loopCount--" is evaluated when the operands to
\* its left hold, and decrements whatever the comparison says
loopCountAfterTest(s, lp) ==
  IF (lp.kind = "for" => s.ex) /\ lp.loopCond THEN lp.loopCount - 1 ELSE lp.loopCount

\* one pass through the body of the C++ while loop of a "while" statement
whileIterate(s, lp) ==
  LET s1 == invoke("testCondition", invoke("resetTo", s, <<lp.cond>>), <<TRUE>>)
      loopCond == s1.lp.loopCond
      s2 == IF loopCond THEN invoke("statement", invoke("resetTo", s1, <<lp.body>>), <<>>) ELSE s1
  IN CASE s1.err # "OK" -> s1
       [] s2.err # "OK" -> s2
       [] OTHER -> [s2 EXCEPT !.lp = [lp EXCEPT !.loopCond = loopCond,
                               !.loopCount = loopCountAfterTest(s, lp)]]

\* one pass through the body of the C++ while loop of a "for" statement
forIterate(s, lp) ==
  LET s1 == invoke("testCondition", invoke("resetTo", s, <<lp.cond>>), <<FALSE>>)
      loopCond == s1.lp.loopCond
      s2 == IF s1.ex /\ loopCond THEN invoke("statement", invoke("resetTo", s1, <<lp.body>>), <<>>) ELSE s1
      s3 == IF s2.ex /\ loopCond THEN invoke("cleanBase", invoke("resetTo", s2, <<lp.iter>>), <<>>) ELSE s2
  IN CASE s1.err # "OK" -> s1
       [] s2.err # "OK" -> s2
       [] s3.err # "OK" -> s3
       [] OTHER -> [s3 EXCEPT !.lp = [lp EXCEPT !.loopCond = loopCond,
                               !.loopCount = loopCountAfterTest(s, lp)]]

loopIterate(s, lp) == IF lp.kind = "for" THEN forIterate(s, lp) ELSE whileIterate(s, lp)

\* Interpreter::statement, while and for: from "l = oldLex" to the end
loopLeave(s, lp) ==
  LET count == loopCountAfterTest(s, lp)
      s1 == deleteLexer([s EXCEPT !.l = lp.oldLex], lp.cond)
      s2 == deleteLexer(s1, lp.iter)
      s3 == deleteLexer(s2, lp.body)
  IN CASE s1.err # "OK" -> s1
       [] s2.err # "OK" -> s2
       [] s3.err # "OK" -> s3
       [] OTHER -> IF count <= 0 THEN throw(s3, "LOOP_ERROR") ELSE s3

\* the C++ while loop of a loop statement, run to its end
RECURSIVE loopRun(_, _)
loopRun(s, lp) ==
  IF s.err # "OK" THEN s
  ELSE IF loopGoesOn(s, lp)
  THEN LET s1 == invoke("loopIterate", s, <<lp>>) IN IF s1.err # "OK" THEN s1 ELSE invoke("loopRun", s1, <<s1.lp>>)
  ELSE invoke("loopLeave", s, <<lp>>)

\* Interpreter::statement, while and for
loopStatement(s) ==
  LET s1 == IF tk(s) = "for" THEN invoke("forEnter", s, <<>>) ELSE invoke("whileEnter", s, <<>>)
  IN IF s1.err # "OK" THEN s1 ELSE invoke("loopRun", s1, <<s1.lp>>)

\* Interpreter::statement, var: the dotted names after the first
RECURSIVE varDots(_, _)
varDots(s, a) ==
  IF s.err # "OK" \/ tk(s) # "." THEN returning(s, a)
  ELSE
    LET s1 == invoke("match", s, <<".">>)
        s2 == IF s1.ex THEN invoke("findChildOrCreate", s1, <<s1.L[a].var, tkStr(s1), VARIABLE_UNDEFINED>>)
          ELSE s1
        s3 == invoke("match", s2, <<LEXER_ID>>)
    IN CASE s1.err # "OK" -> s1
         [] s2.err # "OK" -> s2
         [] s3.err # "OK" -> s3
         [] OTHER -> invoke("varDots", s3, <<IF s1.ex THEN s2.nl ELSE a>>)

\* Interpreter::statement, var: the initialiser of the link a
varInit(s, a) ==
  IF tk(s) # "=" THEN s
  ELSE
    LET s1 == invoke("match", s, <<"=">>)
        s2 == invoke("base", s1, <<>>)
        var == s2.res
        s3 == IF s2.ex THEN invoke("replaceWithLink", s2, <<a, var>>) ELSE s2
    IN CASE s1.err # "OK" -> s1
         [] s2.err # "OK" -> s2
         [] s3.err # "OK" -> s3
         [] OTHER -> invoke("CLEAN", s3, <<var>>)

\* Interpreter::statement, var: the loop over the declarations
RECURSIVE varLoop(_)
varLoop(s) ==
  IF s.err # "OK" \/ tk(s) = ";" THEN s
  ELSE
    LET s1 == IF s.ex THEN invoke("findChildOrCreate", s, <<scopesBack(s), tkStr(s), VARIABLE_UNDEFINED>>)
          ELSE s
        s2 == invoke("match", s1, <<LEXER_ID>>)
        s3 == invoke("varDots", s2, <<IF s.ex THEN s1.nl ELSE 0>>)
        s4 == varInit(s3, s3.res)
        s5 == invoke("matchCommaUnless", s4, <<";">>)
    IN CASE s1.err # "OK" -> s1
         [] s2.err # "OK" -> s2
         [] s3.err # "OK" -> s3
         [] s4.err # "OK" -> s4
         [] s5.err # "OK" -> s5
         [] OTHER -> invoke("varLoop", s5, <<>>)

\* Interpreter::statement, var
varStatement(s) ==
  LET s1 == invoke("match", s, <<"var">>)
      s2 == invoke("varLoop", s1, <<>>)
  IN CASE s1.err # "OK" -> s1
       [] s2.err # "OK" -> s2
       [] OTHER -> invoke("match", s2, <<";">>)

\* Interpreter::statement, if: the else branch
elseBranch(s, cond) ==
  IF tk(s) # "else" THEN s
  ELSE LET s1 == invoke("match", s, <<"else">>)
       IN CASE s1.err # "OK" -> s1
            [] OTHER -> invoke("statementIf", s1, <<~cond>>)

\* Interpreter::statement, if
ifStatement(s) ==
  LET s0 == invoke("match", s, <<"if">>)
      s1 == invoke("match", s0, <<"(">>)
      s2 == invoke("base", s1, <<>>)
      var == s2.res
      s3 == invoke("match", s2, <<")">>)
  IN CASE s0.err # "OK" -> s0
       [] s1.err # "OK" -> s1
       [] s2.err # "OK" -> s2
       [] s3.err # "OK" -> s3
       [] OTHER -> IF s3.ex /\ var = 0 THEN crash(s3)
  ELSE
    LET cond == s3.ex /\ linkBool(s3, var)
        s4 == invoke("CLEAN", s3, <<var>>)
        s5 == invoke("statementIf", s4, <<cond>>)
    IN CASE s4.err # "OK" -> s4
         [] s5.err # "OK" -> s5
         [] OTHER -> elseBranch(s5, cond)

\* Interpreter::statement, return
returnStatement(s) ==
  LET s1 == invoke("match", s, <<"return">>)
      s2 == IF tk(s1) # ";" THEN invoke("base", s1, <<>>) ELSE returning(s1, 0)
      result == s2.res
      resultVar == findChild(s2, scopesBack(s2), TINYJS_RETURN_VAR)
      s3 == IF s2.ex /\ resultVar # 0 THEN invoke("replaceWithLink", s2, <<resultVar, result>>) ELSE s2
      s4 == invoke("CLEAN", [s3 EXCEPT !.ex = FALSE], <<result>>)
  IN CASE s1.err # "OK" -> s1
       [] s2.err # "OK" -> s2
       [] s3.err # "OK" -> s3
       [] s4.err # "OK" -> s4
       [] OTHER -> invoke("match", s4, <<";">>)

\* Interpreter::statement, function
functionStatement(s) ==
  LET s1 == invoke("parseFunctionDefinition", s, <<>>)
      funcVar == s1.res
      s2 == IF s1.ex /\ s1.L[funcVar].name # TINYJS_TEMP_NAME
        THEN invoke("addChildNoDup", s1, <<scopesBack(s1), s1.L[funcVar].name, s1.L[funcVar].var>>)
        ELSE s1
  IN CASE s1.err # "OK" -> s1
       [] s2.err # "OK" -> s2
       [] OTHER -> invoke("CLEAN", s2, <<funcVar>>)

\* Interpreter::statement, an expression
expressionStatement(s) ==
  LET s1 == invoke("cleanBase", s, <<>>) IN IF s1.err # "OK" THEN s1 ELSE invoke("match", s1, <<";">>)

\* Interpreter::statement
statement(s) ==
  CASE s.err # "OK" -> s
    [] tk(s) \in {LEXER_ID, LEXER_INT, LEXER_FLOAT, LEXER_STR, "-"} -> expressionStatement(s)
    [] tk(s) = "{" -> invoke("block", s, <<>>)
    [] tk(s) = ";" -> invoke("match", s, <<";">>)
    [] tk(s) = "var" -> varStatement(s)
    [] tk(s) = "if" -> ifStatement(s)
    [] tk(s) \in {"while", "for"} -> loopStatement(s)
    [] tk(s) = "return" -> returnStatement(s)
    [] tk(s) = "function" -> invoke("functionStatement", s, <<>>)
    [] OTHER -> invoke("match", s, <<LEXER_EOF>>)

\* ------------------------------------------------------------------ host entries

\* Interpreter::execute and evaluateComplex, from the entry to the try block:
\* the locals oldLex and oldScopes are left in s.saved
hostEnter(s, code) ==
  LET s1 == newLexer(s, invoke("LexerOfString", code, <<>>))
  IN [s1 EXCEPT !.saved = [oldLex |-> s.l, oldScopes |-> s.scopes],
                !.l = s1.nx, !.scopes = <<s.root>>, !.ex = TRUE]

\* a catch block that leaves out "l = oldLex"
hostCatchKeepsLexer(s, saved) ==
  LET s1 == deleteLexer([s EXCEPT !.err = "OK"], s.l)
  IN IF s1.err # "OK" THEN s1 ELSE [s1 EXCEPT !.err = s.err]

\* Interpreter::execute and evaluateComplex, the catch block, which throws again
hostCatch(s, saved) ==
  LET s1 == deleteLexer([s EXCEPT !.err = "OK"], s.l)
  IN IF s1.err # "OK" THEN s1 ELSE [s1 EXCEPT !.l = saved.oldLex, !.err = s.err]

\* Interpreter::execute and evaluateComplex, after the try block
hostLeave(s, saved) ==
  LET s1 == deleteLexer(s, s.l)
  IN IF s1.err # "OK" THEN s1 ELSE [s1 EXCEPT !.l = saved.oldLex, !.scopes = saved.oldScopes]

\* History of the host entries: s.log gets one record for every call of
\* execute or evaluateComplex that has ended, with the lexer pointer and the
\* scope stack at its entry and at its end and the error it threw.
logEntry(s, saved) ==
  IF s.err # "OK" /\ ~Thrown(s) THEN s
  ELSE [s EXCEPT !.log = Append(@, [oldLex |-> saved.oldLex, oldScopes |-> saved.oldScopes,
                                    l |-> s.l, scopes |-> s.scopes, err |-> s.err])]

\* the end of a host entry whose try block has ended in the state s
hostEnd(s, saved) ==
  IF Thrown(s) THEN logEntry(hostCatch(s, saved), saved)
  ELSE IF s.err # "OK" THEN s
  ELSE logEntry(hostLeave(s, saved), saved)

\* Interpreter::execute, the loop "while (l->tk) statement(execute)"
RECURSIVE executeLoop(_)
executeLoop(s) ==
  IF s.err # "OK" \/ tk(s) = LEXER_EOF THEN s
  ELSE LET s1 == invoke("statement", s, <<>>) IN IF s1.err # "OK" THEN s1 ELSE invoke("executeLoop", s1, <<>>)

\* Interpreter::execute.  The callee's "bool execute" is a local of its own.
execute(s, code) ==
  LET s1 == invoke("hostEnter", s, <<code>>)
  IN CASE s1.err # "OK" -> s1
       [] OTHER -> LET s2 == invoke("executeLoop", s1, <<>>)
      s3 == invoke("hostEnd", s2, <<s1.saved>>)
  IN [s3 EXCEPT !.ex = s.ex, !.saved = s.saved]

\* Interpreter::evaluateComplex, one pass of the do-while loop
evaluateStep(s, v) ==
  LET s1 == invoke("CLEAN", s, <<v>>)
      s2 == invoke("base", s1, <<>>)
      s3 == IF tk(s2) # LEXER_EOF THEN invoke("match", s2, <<";">>) ELSE s2
  IN CASE s1.err # "OK" -> s1
       [] s2.err # "OK" -> s2
       [] s3.err # "OK" -> s3
       [] OTHER -> returning(s3, s2.res)

\* Interpreter::evaluateComplex, the do-while loop
RECURSIVE evaluateLoop(_, _)
evaluateLoop(s, v) ==
  LET s1 == invoke("evaluateStep", s, <<v>>)
  IN CASE s1.err # "OK" -> s1
       [] OTHER -> IF tk(s1) # LEXER_EOF THEN invoke("evaluateLoop", s1, <<s1.res>>) ELSE s1

\* Interpreter::evaluateComplex, the VariableLink returned by value: it holds
\* one reference on its target, and the target is left in s.nv
resultByValue(s, v) ==
  IF v # 0
  THEN LET target == s.L[v].var
           s1 == ref(s, target)
           s2 == invoke("CLEAN", s1, <<v>>)
       IN IF s2.err # "OK" THEN s2 ELSE [s2 EXCEPT !.nv = target]
  ELSE LET s1 == newVariable(s) IN ref(s1, s1.nv)

\* Interpreter::evaluateComplex
evaluateComplex(s, code) ==
  LET s1 == invoke("hostEnter", s, <<code>>)
  IN CASE s1.err # "OK" -> s1
       [] OTHER -> LET s2 == invoke("evaluateLoop", s1, <<0>>)
      s3 == invoke("hostEnd", s2, <<s1.saved>>)
      s4 == IF s3.err # "OK" THEN s3 ELSE invoke("resultByValue", s3, <<s2.res>>)
  IN [s4 EXCEPT !.ex = s.ex, !.saved = s.saved]

\* the VariableLink that evaluateComplex returned goes out of scope
releaseResult(s) == IF s.err # "OK" THEN s ELSE invoke("unref", s, <<s.nv>>)

\* the host's "Variable *v = (new Variable(...))->ref(); VariableLink r =
\* evaluateComplex(v->getParsableString());": the Value v, the text and the
\* interpreter when evaluateComplex has returned or thrown
roundTrip(s, r) ==
  LET s1 == newVar(s, r)
      s2 == ref(s1, s1.nv)
      s3 == invoke("getParsableString", s2, <<s1.nv>>)
  IN [v |-> s1.nv, text |-> s3.str,
      s |-> IF s3.err # "OK" THEN s3 ELSE invoke("evaluateComplex", s3, <<s3.str>>)]

\* the host's "r.var->equals(v)", then r goes out of scope and the host calls
\* v->unref()
roundTripEnd(s, v) == IF s.err # "OK" THEN s ELSE invoke("unref", invoke("releaseResult", s, <<>>), <<v>>)

s_jsCode == <<"j","s","C","o","d","e">>

\* Variable::getParameter: the value's address is left in s.nv
getParameter(s, c, name) ==
  LET s1 == invoke("findChildOrCreate", s, <<c, name, VARIABLE_UNDEFINED>>) IN [s1 EXCEPT !.nv = s1.L[s1.nl].var]

\* Variable::setReturnVar
setReturnVar(s, c, var) ==
  LET s1 == invoke("findChildOrCreate", s, <<c, TINYJS_RETURN_VAR, VARIABLE_UNDEFINED>>)
  IN IF s1.err # "OK" THEN s1 ELSE invoke("replaceWith", s1, <<s1.nl, var>>)

\* "std::string str = c->getParameter("jsCode")->getString()": the text is
\* left in s.str
jsCodeParameter(s, c) ==
  LET s1 == invoke("getParameter", s, <<c, s_jsCode>>)
      s2 == invoke("getStringStore", s1, <<s1.nv>>)
  IN CASE s1.err # "OK" -> s1
       [] s2.err # "OK" -> s2
       [] OTHER -> [s2 EXCEPT !.str = getString(s2.V[s1.nv])]

\* scExec
scExec(s, c) ==
  LET s1 == invoke("jsCodeParameter", s, <<c>>) IN IF s1.err # "OK" THEN s1 ELSE invoke("execute", s1, <<s1.str>>)

\* scEval
scEval(s, c) ==
  LET s1 == invoke("jsCodeParameter", s, <<c>>)
      s2 == invoke("evaluateComplex", s1, <<s1.str>>)
      s3 == invoke("setReturnVar", s2, <<c, s2.nv>>)
  IN CASE s1.err # "OK" -> s1
       [] s2.err # "OK" -> s2
       [] s3.err # "OK" -> s3
       [] OTHER -> invoke("releaseResult", [s3 EXCEPT !.nv = s2.nv], <<>>)

\* function->var->jsCallback(functionRoot, userdata)
callNative(s, c, jsCallback) ==
  CASE jsCallback = "scExec" -> scExec(s, c)
    [] jsCallback = "scEval" -> scEval(s, c)
    [] OTHER -> crash(s)

\* Interpreter::evaluate: the text is left in s.str
evaluate(s, code) ==
  LET s1 == invoke("evaluateComplex", s, <<code>>)
      s2 == invoke("getStringStore", s1, <<s1.nv>>)
  IN CASE s1.err # "OK" -> s1
       [] s2.err # "OK" -> s2
       [] OTHER -> LET s3 == [s2 EXCEPT !.str = getString(s2.V[s1.nv])]
  IN invoke("releaseResult", [s3 EXCEPT !.nv = s1.nv], <<>>)

\* Interpreter::addNative, "if (!link) link = base->addChild(funcName, new
\* Variable(TINYJS_BLANK_DATA, VARIABLE_OBJECT))"
addNativeClass(s, base0, funcName) ==
  LET found == findChild(s, base0, funcName)
  IN IF found # 0 THEN [s EXCEPT !.nl = found]
     ELSE LET s1 == invoke("newVariableOf", s, <<TINYJS_BLANK_DATA, VARIABLE_OBJECT>>)
          IN IF s1.err # "OK" THEN s1 ELSE invoke("addChild", s1, <<base0, funcName, s1.nv>>)

\* Interpreter::addNative, the loop over the dotted names of the description:
\* base is left in s.nv and funcName in s.str
RECURSIVE addNativePath(_, _, _)
addNativePath(s, base0, funcName) ==
  IF s.err # "OK" \/ tk(s) # "." THEN [s EXCEPT !.nv = base0, !.str = funcName]
  ELSE
    LET s1 == invoke("match", s, <<".">>)
        s2 == invoke("addNativeClass", s1, <<base0, funcName>>)
        s3 == invoke("match", s2, <<LEXER_ID>>)
    IN CASE s1.err # "OK" -> s1
         [] s2.err # "OK" -> s2
         [] s3.err # "OK" -> s3
         [] OTHER -> invoke("addNativePath", s3, <<s2.L[s2.nl].var, tkStr(s1)>>)

\* Interpreter::addNative, from the new funcVar on
addNativeFunction(s, oldLex, base0, funcName, ptr) ==
  LET s1 == newVar(s, [BlankVar EXCEPT !.flags = VARIABLE_FUNCTION \cup VARIABLE_NATIVE,
        !.jsCallback = ptr])
      funcVar == s1.nv
      s2 == invoke("parseFunctionArguments", s1, <<funcVar>>)
      s3 == deleteLexer(s2, s2.l)
  IN CASE s1.err # "OK" -> s1
       [] s2.err # "OK" -> s2
       [] s3.err # "OK" -> s3
       [] OTHER -> invoke("addChild", [s3 EXCEPT !.l = oldLex], <<base0, funcName, funcVar>>)

\* Interpreter::addNative
addNative(s, funcDesc, ptr) ==
  LET s1 == newLexer(s, invoke("LexerOfString", funcDesc, <<>>))
      s2 == invoke("match", [s1 EXCEPT !.l = s1.nx], <<"function">>)
      s3 == invoke("match", s2, <<LEXER_ID>>)
      s4 == invoke("addNativePath", s3, <<s3.root, tkStr(s2)>>)
  IN CASE s1.err # "OK" -> s1
       [] s2.err # "OK" -> s2
       [] s3.err # "OK" -> s3
       [] s4.err # "OK" -> s4
       [] OTHER -> invoke("addNativeFunction", s4, <<s.l, s4.nv, s4.str, ptr>>)

s_String == <<"S","t","r","i","n","g">>
s_Array == <<"A","r","r","a","y">>
s_Object == <<"O","b","j","e","c","t">>

\* the members of an Interpreter before its constructor has run
BlankInterpreter(ubAborts) ==
  [V |-> <<>>, L |-> <<>>, X |-> <<>>, l |-> 0, scopes |-> <<>>, root |-> 0,
   stringClass |-> 0, arrayClass |-> 0, objectClass |-> 0,
   ex |-> TRUE, err |-> "OK", ub |-> FALSE, ubAborts |-> ubAborts,
   res |-> 0, nv |-> 0, nl |-> 0, nx |-> 0, str |-> <<>>,
   lp |-> loopLocals("none", 0, 0, 0, 0, FALSE),
   saved |-> [oldLex |-> 0, oldScopes |-> <<>>], ncalls |-> 0,
   log |-> <<>>, binds |-> {}, frames |-> {}, adopted |-> {}, deadLink |-> FALSE]

\* "(new Variable(TINYJS_BLANK_DATA, VARIABLE_OBJECT))->ref()"
newClass(s) ==
  LET s1 == invoke("newVariableOf", s, <<TINYJS_BLANK_DATA, VARIABLE_OBJECT>>)
  IN IF s1.err # "OK" THEN s1 ELSE ref(s1, s1.nv)

\* Interpreter::Interpreter
Interpreter(s) ==
  LET s1 == invoke("newClass", s, <<>>)
      s2 == invoke("newClass", [s1 EXCEPT !.root = s1.nv], <<>>)
      s3 == invoke("newClass", [s2 EXCEPT !.stringClass = s2.nv], <<>>)
      s4 == invoke("newClass", [s3 EXCEPT !.arrayClass = s3.nv], <<>>)
      s5 == [s4 EXCEPT !.objectClass = s4.nv]
      s6 == invoke("addChild", s5, <<s5.root, s_String, s5.stringClass>>)
      s7 == invoke("addChild", s6, <<s6.root, s_Array, s6.arrayClass>>)
  IN CASE s1.err # "OK" -> s1
       [] s2.err # "OK" -> s2
       [] s3.err # "OK" -> s3
       [] s4.err # "OK" -> s4
       [] s6.err # "OK" -> s6
       [] s7.err # "OK" -> s7
       [] OTHER -> invoke("addChild", s7, <<s7.root, s_Object, s7.objectClass>>)

\* "function exec(jsCode)", "function eval(jsCode)"
d_exec == <<"f","u","n","c","t","i","o","n"," ","e","x","e","c","(","j","s","C","o","d","e",")">>
d_eval == <<"f","u","n","c","t","i","o","n"," ","e","v","a","l","(","j","s","C","o","d","e",")">>

\* registerFunctions: the natives that enter the interpreter again
registerFunctions(s) ==
  LET s1 == invoke("addNative", s, <<d_exec, "scExec">>)
  IN CASE s1.err # "OK" -> s1
       [] OTHER -> invoke("addNative", s1, <<d_eval, "scEval">>)

\* path.find('.', from): the index (from 0) of the first '.' at or after from,
\* path.length() where there is none ("if (thisIdx == npos) thisIdx = length")
RECURSIVE findDot(_, _)
findDot(path, from) ==
  IF from >= Len(path) THEN Len(path)
  ELSE IF path[from + 1] = "." THEN from ELSE findDot(path, from + 1)

\* Interpreter::getScriptVariable, the while loop: 0 is the null pointer
RECURSIVE getScriptVariableFrom(_, _, _, _, _)
getScriptVariableFrom(s, path, var, prevIdx, thisIdx) ==
  IF var = 0 \/ prevIdx >= Len(path) THEN var
  ELSE LET el == SubSeq(path, prevIdx + 1, thisIdx)
           varl == findChild(s, var, el)
       IN getScriptVariableFrom(s, path, IF varl # 0 THEN s.L[varl].var ELSE 0,
                                thisIdx + 1, findDot(path, thisIdx + 1))

\* Interpreter::getScriptVariable
getScriptVariable(s, path) == getScriptVariableFrom(s, path, s.root, 0, findDot(path, 0))

\* ------------------------------------------------------------------ the host
\*
\* The program is the interpreter together with a host that constructs it,
\* registers the natives and calls execute and evaluate.  A call of execute is
\* taken one statement of the script at a time, and a loop statement of the
\* script one pass at a time; a call of evaluate is taken in one step.


vars == <<st, pc, call, hrefs>>

\* the bound on the host's calls in one behaviour
MaxHostCalls == 1

\* the scripts the host executes
\* var a = 1 + 2 * 3;
sArith ==
  <<"v","a","r"," ","a"," ","="," ","1"," ","+"," ","2"," ","*"," ","3",";">>
\* var a = {x:1}; function g(o){ o.x = 9; } g(a);
sObjectArg ==
  <<"v","a","r"," ","a"," ","="," ","{","x",":","1","}",";"," ","f","u","n","c","t","i","o","n"," ","g","(","o",")","{"," ","o",".","x"," ","="," ","9",";"," ","}"," ","g","(","a",")",";">>
\* var a = {}; function g(o){ o.x = 9; } g(a);
sEmptyObjectArg ==
  <<"v","a","r"," ","a"," ","="," ","{","}",";"," ","f","u","n","c","t","i","o","n"," ","g","(","o",")","{"," ","o",".","x"," ","="," ","9",";"," ","}"," ","g","(","a",")",";">>
\* var b = []; function g(o){ o[0] = 9; } g(b);
sEmptyArrayArg ==
  <<"v","a","r"," ","b"," ","="," ","[","]",";"," ","f","u","n","c","t","i","o","n"," ","g","(","o",")","{"," ","o","[","0","]"," ","="," ","9",";"," ","}"," ","g","(","b",")",";">>
\* var n = 5; function h(p){ p = 7; } h(n);
sIntArg ==
  <<"v","a","r"," ","n"," ","="," ","5",";"," ","f","u","n","c","t","i","o","n"," ","h","(","p",")","{"," ","p"," ","="," ","7",";"," ","}"," ","h","(","n",")",";">>
\* var s = "ab"; function h(p){ p += "c"; } h(s);
sStringArg ==
  <<"v","a","r"," ","s"," ","="," ","\"","a","b","\"",";"," ","f","u","n","c","t","i","o","n"," ","h","(","p",")","{"," ","p"," ","+","="," ","\"","c","\"",";"," ","}"," ","h","(","s",")",";">>
\* function f(){ return {x:4}; } var y = f().x;
sMemberOfResult ==
  <<"f","u","n","c","t","i","o","n"," ","f","(",")","{"," ","r","e","t","u","r","n"," ","{","x",":","4","}",";"," ","}"," ","v","a","r"," ","y"," ","="," ","f","(",")",".","x",";">>
\* function f(){ return [7]; } var y = f()[0];
sIndexOfResult ==
  <<"f","u","n","c","t","i","o","n"," ","f","(",")","{"," ","r","e","t","u","r","n"," ","[","7","]",";"," ","}"," ","v","a","r"," ","y"," ","="," ","f","(",")","[","0","]",";">>
\* function f(){ return {x:4}; } var o = f(); var y = o.x;
sResult ==
  <<"f","u","n","c","t","i","o","n"," ","f","(",")","{"," ","r","e","t","u","r","n"," ","{","x",":","4","}",";"," ","}"," ","v","a","r"," ","o"," ","="," ","f","(",")",";"," ","v","a","r"," ","y"," ","="," ","o",".","x",";">>
\* var t = 0; function f(){ return 1; t = 5; return 2; } var r = f(); var u = 3;
sReturnTwice ==
  <<"v","a","r"," ","t"," ","="," ","0",";"," ","f","u","n","c","t","i","o","n"," ","f","(",")","{"," ","r","e","t","u","r","n"," ","1",";"," ","t"," ","="," ","5",";"," ","r","e","t","u","r","n"," ","2",";"," ","}"," ","v","a","r"," ","r"," ","="," ","f","(",")",";"," ","v","a","r"," ","u"," ","="," ","3",";">>
\* function f(){ return 1; var a = [1,2]; } var r = f(); var u = 3;
sReturnThenArray ==
  <<"f","u","n","c","t","i","o","n"," ","f","(",")","{"," ","r","e","t","u","r","n"," ","1",";"," ","v","a","r"," ","a"," ","="," ","[","1",",","2","]",";"," ","}"," ","v","a","r"," ","r"," ","="," ","f","(",")",";"," ","v","a","r"," ","u"," ","="," ","3",";">>
\* function f(){ var q = 5; } var r = f(); var u = 3;
sReturnNothing ==
  <<"f","u","n","c","t","i","o","n"," ","f","(",")","{"," ","v","a","r"," ","q"," ","="," ","5",";"," ","}"," ","v","a","r"," ","r"," ","="," ","f","(",")",";"," ","v","a","r"," ","u"," ","="," ","3",";">>
\* var t = 0; function f(){ var i = 0; while (i < 3) { i++; t = i; return i; } } var r = f();
sReturnInLoop ==
  <<"v","a","r"," ","t"," ","="," ","0",";"," ","f","u","n","c","t","i","o","n"," ","f","(",")","{"," ","v","a","r"," ","i"," ","="," ","0",";"," ","w","h","i","l","e"," ","(","i"," ","<"," ","3",")"," ","{"," ","i","+","+",";"," ","t"," ","="," ","i",";"," ","r","e","t","u","r","n"," ","i",";"," ","}"," ","}"," ","v","a","r"," ","r"," ","="," ","f","(",")",";">>
\* if (0) x = {a:1}; var u = 3;
sSkipObject ==
  <<"i","f"," ","(","0",")"," ","x"," ","="," ","{","a",":","1","}",";"," ","v","a","r"," ","u"," ","="," ","3",";">>
\* var x = 0 ? [1,2] : 3;
sSkipArray ==
  <<"v","a","r"," ","x"," ","="," ","0"," ","?"," ","[","1",",","2","]"," ",":"," ","3",";">>
\* var z = 1 || new Q();
sSkipNew ==
  <<"v","a","r"," ","z"," ","="," ","1"," ","|","|"," ","n","e","w"," ","Q","(",")",";">>
\* var t = 0; function f(){ t = 1; return 1; } var x = 0 && f(); if (0) { t = 2; } else t = 3;
sSkipCall ==
  <<"v","a","r"," ","t"," ","="," ","0",";"," ","f","u","n","c","t","i","o","n"," ","f","(",")","{"," ","t"," ","="," ","1",";"," ","r","e","t","u","r","n"," ","1",";"," ","}"," ","v","a","r"," ","x"," ","="," ","0"," ","&","&"," ","f","(",")",";"," ","i","f"," ","(","0",")"," ","{"," ","t"," ","="," ","2",";"," ","}"," ","e","l","s","e"," ","t"," ","="," ","3",";">>
\* if (0) 1 ? 2 : 3;
sSkipTernary ==
  <<"i","f"," ","(","0",")"," ","1"," ","?"," ","2"," ",":"," ","3",";">>
\* var a = 1; a = ;
sParseError ==
  <<"v","a","r"," ","a"," ","="," ","1",";"," ","a"," ","="," ",";">>
\* function g(){ var k = 1; k(); } g();
sErrorInFunction ==
  <<"f","u","n","c","t","i","o","n"," ","g","(",")","{"," ","v","a","r"," ","k"," ","="," ","1",";"," ","k","(",")",";"," ","}"," ","g","(",")",";">>
\* exec("var q = 3;"); var u = q;
sExec ==
  <<"e","x","e","c","(","\"","v","a","r"," ","q"," ","="," ","3",";","\"",")",";"," ","v","a","r"," ","u"," ","="," ","q",";">>
\* exec("q = ;");
sExecError ==
  <<"e","x","e","c","(","\"","q"," ","="," ",";","\"",")",";">>
\* var r = eval("1+1");
sEval ==
  <<"v","a","r"," ","r"," ","="," ","e","v","a","l","(","\"","1","+","1","\"",")",";">>
\* var i = 0; while (i < 3) i = i + 1;
sWhile ==
  <<"v","a","r"," ","i"," ","="," ","0",";"," ","w","h","i","l","e"," ","(","i"," ","<"," ","3",")"," ","i"," ","="," ","i"," ","+"," ","1",";">>
\* var t = 0; for (var i = 0; i < 2; i++) { t += i; }
sFor ==
  <<"v","a","r"," ","t"," ","="," ","0",";"," ","f","o","r"," ","(","v","a","r"," ","i"," ","="," ","0",";"," ","i"," ","<"," ","2",";"," ","i","+","+",")"," ","{"," ","t"," ","+","="," ","i",";"," ","}">>
\* var i = 0; while (i < 3) { i = i + 1; i(); }
sErrorInLoop ==
  <<"v","a","r"," ","i"," ","="," ","0",";"," ","w","h","i","l","e"," ","(","i"," ","<"," ","3",")"," ","{"," ","i"," ","="," ","i"," ","+"," ","1",";"," ","i","(",")",";"," ","}">>

\* g = 5;
sGlobalTop ==
  <<"g"," ","="," ","5",";">>
\* function f(){ h = 6; } f();
sGlobalInCall ==
  <<"f","u","n","c","t","i","o","n"," ","f","(",")","{"," ","h"," ","="," ","6",";"," ","}"," ","f","(",")",";">>
\* function f(){ c += 2; } f();
sGlobalPlus ==
  <<"f","u","n","c","t","i","o","n"," ","f","(",")","{"," ","c"," ","+","="," ","2",";"," ","}"," ","f","(",")",";">>
\* d -= 1;
sGlobalMinus ==
  <<"d"," ","-","="," ","1",";">>
\* var x = 5; var y = x++;
sPostInc ==
  <<"v","a","r"," ","x"," ","="," ","5",";"," ","v","a","r"," ","y"," ","="," ","x","+","+",";">>
\* var x = 5; var y = x--;
sPostDec ==
  <<"v","a","r"," ","x"," ","="," ","5",";"," ","v","a","r"," ","y"," ","="," ","x","-","-",";">>
\* var u = 1; return; u = 2;
sTopReturn ==
  <<"v","a","r"," ","u"," ","="," ","1",";"," ","r","e","t","u","r","n",";"," ","u"," ","="," ","2",";">>

\* var a = {b:1}; a.b = (a = 2);
sAssignFreed ==
  <<"v","a","r"," ","a"," ","="," ","{","b",":","1","}",";"," ","a",".","b"," ","="," ","(","a"," ","="," ","2",")",";">>

\* var a = 7; var b = 10; var c = 010; var d = 09; var e = 0x1F;
sLiterals ==
  <<"v","a","r"," ","a"," ","="," ","7",";"," ","v","a","r"," ","b"," ","="," ","1","0",";"," ","v","a","r"," ","c"," ","="," ","0","1","0",";"," ","v","a","r"," ","d"," ","="," ","0","9",";"," ","v","a","r"," ","e"," ","="," ","0","x","1","F",";">>

\* var a = 4; var b = a; var o = {m:16}; var x = a << 1; var y = o.m >> 2; var z = 3 >>> 1;
sShift ==
  <<"v","a","r"," ","a"," ","="," ","4",";"," ","v","a","r"," ","b"," ","="," ","a",";"," ","v","a","r"," ","o"," ","="," ","{","m",":","1","6","}",";"," ","v","a","r"," ","x"," ","="," ","a"," ","<","<"," ","1",";"," ","v","a","r"," ","y"," ","="," ","o",".","m"," ",">",">"," ","2",";"," ","v","a","r"," ","z"," ","="," ","3"," ",">",">",">"," ","1",";">>

\* var P = {m:1}; var o = {prototype:P}; var q = {prototype:P}; o.m = 2; Object.k = 3; o.k = 4; var u = o.m; var r = q.m; var w = q.k;
sProtoAssign ==
  <<"v","a","r"," ","P"," ","="," ","{","m",":","1","}",";"," ","v","a","r"," ","o"," ","="," ","{","p","r","o","t","o","t","y","p","e",":","P","}",";"," ","v","a","r"," ","q"," ","="," ","{","p","r","o","t","o","t","y","p","e",":","P","}",";"," ","o",".","m"," ","="," ","2",";"," ","O","b","j","e","c","t",".","k"," ","="," ","3",";"," ","o",".","k"," ","="," ","4",";"," ","v","a","r"," ","u"," ","="," ","o",".","m",";"," ","v","a","r"," ","r"," ","="," ","q",".","m",";"," ","v","a","r"," ","w"," ","="," ","q",".","k",";">>
\* var o = {}; o.prototype = o; var x = o.y;
sProtoCycle ==
  <<"v","a","r"," ","o"," ","="," ","{","}",";"," ","o",".","p","r","o","t","o","t","y","p","e"," ","="," ","o",";"," ","v","a","r"," ","x"," ","="," ","o",".","y",";">>

\* var a = [1,2]; var n0 = a.length; var x = a[1]; var n1 = a.length; var y = a[5]; var n2 = a.length;
sReadIndex ==
  <<"v","a","r"," ","a"," ","="," ","[","1",",","2","]",";"," ","v","a","r"," ","n","0"," ","="," ","a",".","l","e","n","g","t","h",";"," ","v","a","r"," ","x"," ","="," ","a","[","1","]",";"," ","v","a","r"," ","n","1"," ","="," ","a",".","l","e","n","g","t","h",";"," ","v","a","r"," ","y"," ","="," ","a","[","5","]",";"," ","v","a","r"," ","n","2"," ","="," ","a",".","l","e","n","g","t","h",";">>

Scripts ==
  {sArith, sObjectArg, sEmptyObjectArg, sEmptyArrayArg, sIntArg, sStringArg,
   sMemberOfResult, sIndexOfResult, sResult, sReturnTwice, sReturnThenArray,
   sReturnNothing, sReturnInLoop, sSkipObject, sSkipArray, sSkipNew, sSkipCall,
   sSkipTernary, sParseError, sErrorInFunction, sExec, sExecError, sEval, sWhile, sFor,
   sErrorInLoop, sGlobalTop, sGlobalInCall, sGlobalPlus, sGlobalMinus, sPostInc, sPostDec,
   sTopReturn, sAssignFreed, sLiterals, sShift, sProtoAssign, sProtoCycle, sReadIndex}

\* the scripts with long loops
\* while (1) ;
sWhileForever ==
  <<"w","h","i","l","e"," ","(","1",")"," ",";">>
\* for (var i = 0; 1; i = 1) ;
sForForever ==
  <<"f","o","r"," ","(","v","a","r"," ","i"," ","="," ","0",";"," ","1",";"," ","i"," ","="," ","1",")"," ",";">>
\* var i = 0; while (i < 8192) i++;
sWhileLast ==
  <<"v","a","r"," ","i"," ","="," ","0",";"," ","w","h","i","l","e"," ","(","i"," ","<"," ","8","1","9","2",")"," ","i","+","+",";">>
\* for (var i = 0; i < 8192; i++) ;
sForLast ==
  <<"f","o","r"," ","(","v","a","r"," ","i"," ","="," ","0",";"," ","i"," ","<"," ","8","1","9","2",";"," ","i","+","+",")"," ",";">>
\* var i = 0; while (i < 8191) i++;
sWhileBeforeLast ==
  <<"v","a","r"," ","i"," ","="," ","0",";"," ","w","h","i","l","e"," ","(","i"," ","<"," ","8","1","9","1",")"," ","i","+","+",";">>

LoopScripts ==
  {sWhile, sFor, sErrorInLoop, sWhileForever, sForForever, sWhileLast, sForLast,
   sWhileBeforeLast}

\* the expressions the host evaluates
\* 1 + 2 * 3
eArith ==
  <<"1"," ","+"," ","2"," ","*"," ","3">>
\* "ab" + 1
eConcat ==
  <<"\"","a","b","\""," ","+"," ","1">>
\* 1 + ;
eParseError ==
  <<"1"," ","+"," ",";">>
\* eval("1+1")
eEval ==
  <<"e","v","a","l","(","\"","1","+","1","\"",")">>
\* exec("q = ;")
eExecError ==
  <<"e","x","e","c","(","\"","q"," ","="," ",";","\"",")">>

\* 1 == 1
eEqual ==
  <<"1"," ","=","="," ","1">>
\* undefined == undefined
eUndefEqual ==
  <<"u","n","d","e","f","i","n","e","d"," ","=","="," ","u","n","d","e","f","i","n","e","d">>
\* 1 === "1"
eTypeEqual ==
  <<"1"," ","=","=","="," ","\"","1","\"">>
\* null === undefined
eNullTypeEqual ==
  <<"n","u","l","l"," ","=","=","="," ","u","n","d","e","f","i","n","e","d">>

Expressions ==
  {eArith, eConcat, eParseError, eEval, eExecError, eEqual, eUndefEqual, eTypeEqual,
   eNullTypeEqual}


\* the Values that can be reached from the Values in seen through child links
RECURSIVE reachFrom(_, _)
reachFrom(s, seen) ==
  LET next == seen \cup {s.L[k].var : k \in UNION {childLinks(s, s.V[v].firstChild) : v \in seen}}
  IN IF next = seen THEN seen ELSE reachFrom(s, next)

\* the Values and the Links of the graph under the root
Reachable(s) == reachFrom(s, {s.root})
ReachableLinks(s) == UNION {childLinks(s, s.V[v].firstChild) : v \in Reachable(s)}

\* the Values and the Links that have been allocated and not destroyed
AliveValues(s) == {v \in 1..Len(s.V) : s.V[v].alive}
AliveLinks(s) == {k \in 1..Len(s.L) : s.L[k].alive}
AliveLexers(s) == {x \in 1..Len(s.X) : s.X[x].alive}

\* no Value and no Link is alive outside the graph under the root
LeakFree(s) == AliveValues(s) \subseteq Reachable(s) /\ AliveLinks(s) \subseteq ReachableLinks(s)

\* What the host knows of its call: the entry point, the text, how the call
\* ended, the error it threw, the number of calls so far, and whether the
\* heap held nothing but the graph under the root when the call began.
NoCall == [kind |-> "none", code |-> <<>>, outcome |-> "none", err |-> "OK", n |-> 0,
           leakFree |-> TRUE, value |-> BlankVar, equal |-> FALSE, ptr |-> "NULL"]

\* the interpreter the host works with: constructed, the natives registered
InitialInterpreters == {invoke("registerFunctions", invoke("Interpreter", BlankInterpreter(b), <<>>), <<>>) : b \in BOOLEAN}

Init ==
  /\ st \in InitialInterpreters
  /\ pc = "idle"
  /\ call = NoCall
  /\ hrefs = <<>>

\* the interpreter runs a routine, an entry point

\* a loop statement of the script: its first pass, and one pass of its C++
\* while loop
loopBegin(s) == IF tk(s) = "for" THEN invoke("forEnter", s, <<>>) ELSE invoke("whileEnter", s, <<>>)
loopPass(s) == invoke("loopIterate", s, <<s.lp>>)

\* how a host call that has ended in the state s shows to the host
outcomeOf(s) == IF Thrown(s) THEN "error" ELSE IF s.err # "OK" THEN "killed" ELSE "returned"

ended(s) == [call EXCEPT !.outcome = outcomeOf(s), !.err = s.err]

\* where the host is after a call that has ended in the state s
after(s) == IF s.err # "OK" /\ ~Thrown(s) THEN "dead" ELSE "idle"

\* the interpreter after the host has caught the Exception
caught(s) == IF Thrown(s) THEN [s EXCEPT !.err = "OK"] ELSE s

\* the host calls execute(code): Interpreter::execute up to the try block
begun(kind, code) ==
  [kind |-> kind, code |-> code, outcome |-> "running", err |-> "OK", n |-> call.n + 1,
   leakFree |-> LeakFree(st), value |-> BlankVar, equal |-> FALSE, ptr |-> "NULL"]

\* The call of a routine by its name: s is the state the routine starts from,
\* a the routine's other arguments
invoke(routine, s, a) ==
  CASE routine = "strtol" -> strtol(s)
    [] routine = "getNextToken" -> getNextToken(s)
    [] routine = "reset" -> reset(s)
    [] routine = "LexerOfString" -> LexerOfString(s)
    [] routine = "LexerOfOwner" -> LexerOfOwner(s, a[1], a[2])
    [] routine = "strtod" -> strtod(s)
    [] routine = "newVariableOf" -> newVariableOf(s, a[1], a[2])
    [] routine = "removeAllChildren" -> removeAllChildren(s, a[1])
    [] routine = "deleteLinksFrom" -> deleteLinksFrom(s, a[1])
    [] routine = "deleteVariable" -> deleteVariable(s, a[1])
    [] routine = "unref" -> unref(s, a[1])
    [] routine = "deleteLink" -> deleteLink(s, a[1])
    [] routine = "replaceWith" -> replaceWith(s, a[1], a[2])
    [] routine = "replaceWithLink" -> replaceWithLink(s, a[1], a[2])
    [] routine = "addChild" -> addChild(s, a[1], a[2], a[3])
    [] routine = "addChildNew" -> addChildNew(s, a[1], a[2])
    [] routine = "addChildNoDup" -> addChildNoDup(s, a[1], a[2], a[3])
    [] routine = "addChildNoDupNew" -> addChildNoDupNew(s, a[1], a[2])
    [] routine = "findChildOrCreate" -> findChildOrCreate(s, a[1], a[2], a[3])
    [] routine = "removeLink" -> removeLink(s, a[1], a[2])
    [] routine = "getStringStore" -> getStringStore(s, a[1])
    [] routine = "getParsableString" -> getParsableString(s, a[1])
    [] routine = "setUndefined" -> setUndefined(s, a[1])
    [] routine = "setArray" -> setArray(s, a[1])
    [] routine = "highestIndex" -> highestIndex(s, a[1], a[2])
    [] routine = "getArrayLength" -> getArrayLength(s, a[1])
    [] routine = "mathsOp" -> mathsOp(s, a[1], a[2], a[3])
    [] routine = "equals" -> equals(s, a[1], a[2])
    [] routine = "copyChildren" -> copyChildren(s, a[1], a[2])
    [] routine = "deepCopy" -> deepCopy(s, a[1])
    [] routine = "copyValue" -> copyValue(s, a[1], a[2])
    [] routine = "getSubLex" -> getSubLex(s, a[1], a[2])
    [] routine = "match" -> match(s, a[1])
    [] routine = "CLEAN" -> CLEAN(s, a[1])
    [] routine = "CREATE_LINK" -> CREATE_LINK(s, a[1], a[2])
    [] routine = "resultLink" -> resultLink(s, a[1], a[2])
    [] routine = "mathsOpLocal" -> mathsOpLocal(s, a[1], a[2], a[3], a[4])
    [] routine = "findInParentClasses" -> findInParentClasses(s, a[1], a[2])
    [] routine = "linkNew" -> linkNew(s)
    [] routine = "matchCommaUnless" -> matchCommaUnless(s, a[1])
    [] routine = "matchEmptyParens" -> matchEmptyParens(s)
    [] routine = "recordAccess" -> recordAccess(s, a[1], a[2])
    [] routine = "arrayAccess" -> arrayAccess(s, a[1], a[2])
    [] routine = "factorAccess" -> factorAccess(s, a[1], a[2])
    [] routine = "addInitialiser" -> addInitialiser(s, a[1], a[2])
    [] routine = "objectInit" -> objectInit(s, a[1])
    [] routine = "arrayInit" -> arrayInit(s, a[1], a[2])
    [] routine = "factorLiteral" -> factorLiteral(s, a[1], a[2])
    [] routine = "factor" -> factor(s)
    [] routine = "baseNoExecute" -> baseNoExecute(s)
    [] routine = "conditionNoExecute" -> conditionNoExecute(s)
    [] routine = "cleanBaseNoExecute" -> cleanBaseNoExecute(s)
    [] routine = "applyOp" -> applyOp(s, a[1], a[2], a[3])
    [] routine = "applyLocalOp" -> applyLocalOp(s, a[1], a[2], a[3], a[4])
    [] routine = "binaryStep" -> binaryStep(s, a[1], a[2])
    [] routine = "unary" -> unary(s)
    [] routine = "termLoop" -> termLoop(s, a[1])
    [] routine = "term" -> term(s)
    [] routine = "postfix" -> postfix(s, a[1], a[2])
    [] routine = "expressionLoop" -> expressionLoop(s, a[1])
    [] routine = "expression" -> expression(s)
    [] routine = "shiftStep" -> shiftStep(s, a[1], a[2])
    [] routine = "shift" -> shift(s)
    [] routine = "conditionLoop" -> conditionLoop(s, a[1])
    [] routine = "condition" -> condition(s)
    [] routine = "toBooleans" -> toBooleans(s, a[1], a[2])
    [] routine = "logicStep" -> logicStep(s, a[1], a[2], a[3], a[4])
    [] routine = "logicLoop" -> logicLoop(s, a[1])
    [] routine = "logic" -> logic(s)
    [] routine = "ternarySkip" -> ternarySkip(s, a[1])
    [] routine = "ternaryChoose" -> ternaryChoose(s, a[1])
    [] routine = "ternary" -> ternary(s)
    [] routine = "adoptByRoot" -> adoptByRoot(s, a[1])
    [] routine = "assign" -> assign(s, a[1], a[2])
    [] routine = "base" -> base(s)
    [] routine = "parseFunctionArgumentsLoop" -> parseFunctionArgumentsLoop(s, a[1])
    [] routine = "parseFunctionArguments" -> parseFunctionArguments(s, a[1])
    [] routine = "parseFunctionDefinition" -> parseFunctionDefinition(s)
    [] routine = "bindParameter" -> bindParameter(s, a[1], a[2])
    [] routine = "bindParameters" -> bindParameters(s, a[1], a[2])
    [] routine = "skipArguments" -> skipArguments(s)
    [] routine = "functionReturn" -> functionReturn(s, a[1], a[2])
    [] routine = "functionCall" -> functionCall(s, a[1], a[2])
    [] routine = "blockStatements" -> blockStatements(s)
    [] routine = "skipBlock" -> skipBlock(s, a[1])
    [] routine = "block" -> block(s)
    [] routine = "resetTo" -> resetTo(s, a[1])
    [] routine = "cleanBase" -> cleanBase(s)
    [] routine = "testCondition" -> testCondition(s, a[1])
    [] routine = "statementIf" -> statementIf(s, a[1])
    [] routine = "whileEnter" -> whileEnter(s)
    [] routine = "forHead" -> forHead(s)
    [] routine = "forEnter" -> forEnter(s)
    [] routine = "loopIterate" -> loopIterate(s, a[1])
    [] routine = "loopLeave" -> loopLeave(s, a[1])
    [] routine = "loopRun" -> loopRun(s, a[1])
    [] routine = "varDots" -> varDots(s, a[1])
    [] routine = "varLoop" -> varLoop(s)
    [] routine = "functionStatement" -> functionStatement(s)
    [] routine = "statement" -> statement(s)
    [] routine = "hostEnter" -> hostEnter(s, a[1])
    [] routine = "hostEnd" -> hostEnd(s, a[1])
    [] routine = "executeLoop" -> executeLoop(s)
    [] routine = "execute" -> execute(s, a[1])
    [] routine = "evaluateStep" -> evaluateStep(s, a[1])
    [] routine = "evaluateLoop" -> evaluateLoop(s, a[1])
    [] routine = "resultByValue" -> resultByValue(s, a[1])
    [] routine = "evaluateComplex" -> evaluateComplex(s, a[1])
    [] routine = "releaseResult" -> releaseResult(s)
    [] routine = "roundTrip" -> roundTrip(s, a[1])
    [] routine = "roundTripEnd" -> roundTripEnd(s, a[1])
    [] routine = "getParameter" -> getParameter(s, a[1], a[2])
    [] routine = "setReturnVar" -> setReturnVar(s, a[1], a[2])
    [] routine = "jsCodeParameter" -> jsCodeParameter(s, a[1])
    [] routine = "callNative" -> callNative(s, a[1], a[2])
    [] routine = "evaluate" -> evaluate(s, a[1])
    [] routine = "addNativeClass" -> addNativeClass(s, a[1], a[2])
    [] routine = "addNativePath" -> addNativePath(s, a[1], a[2])
    [] routine = "addNativeFunction" -> addNativeFunction(s, a[1], a[2], a[3], a[4])
    [] routine = "addNative" -> addNative(s, a[1], a[2])
    [] routine = "newClass" -> newClass(s)
    [] routine = "Interpreter" -> Interpreter(s)
    [] routine = "registerFunctions" -> registerFunctions(s)
    [] routine = "loopBegin" -> loopBegin(s)
    [] routine = "loopPass" -> loopPass(s)

HostExecuteOf(codes) ==
  /\ pc = "idle"
  /\ call.n < MaxHostCalls
  /\ \E code \in codes :
       /\ st' = invoke("hostEnter", [st EXCEPT !.log = <<>>, !.binds = {}, !.frames = {}, !.adopted = {}], <<code>>)
       /\ call' = begun("execute", code)
  /\ pc' = "run"
  /\ UNCHANGED hrefs

HostExecute == HostExecuteOf(Scripts)

\* one pass of "while (l->tk) statement(execute)" on a statement that is no loop
ExecuteStatement ==
  /\ pc = "run"
  /\ st.err = "OK"
  /\ tk(st) \notin {LEXER_EOF, "while", "for"}
  /\ st' = invoke("statement", st, <<>>)
  /\ UNCHANGED <<pc, call, hrefs>>

\* a loop statement of the script, up to "int loopCount = ..."
LoopEnter ==
  /\ pc = "run"
  /\ st.err = "OK"
  /\ tk(st) \in {"while", "for"}
  /\ st' = invoke("loopBegin", st, <<>>)
  /\ pc' = IF Failed(st') THEN "run" ELSE "loop"
  /\ UNCHANGED <<call, hrefs>>

\* one pass of the C++ while loop of the loop statement
LoopIterate ==
  /\ pc = "loop"
  /\ loopGoesOn(st, st.lp)
  /\ st' = invoke("loopPass", st, <<>>)
  /\ pc' = IF Failed(st') THEN "run" ELSE "loop"
  /\ UNCHANGED <<call, hrefs>>

\* the loop statement from the end of its C++ while loop on
LoopLeave ==
  /\ pc = "loop"
  /\ ~loopGoesOn(st, st.lp)
  /\ st' = invoke("loopLeave", st, <<st.lp>>)
  /\ pc' = "run"
  /\ UNCHANGED <<call, hrefs>>

\* Interpreter::execute after the try block: the call returns
ExecuteReturn ==
  /\ pc = "run"
  /\ st.err = "OK"
  /\ tk(st) = LEXER_EOF
  /\ st' = invoke("hostEnd", st, <<st.saved>>)
  /\ call' = ended(st')
  /\ pc' = after(st')
  /\ UNCHANGED hrefs

\* Interpreter::execute, the catch block: the call throws to the host
ExecuteCatch ==
  /\ pc = "run"
  /\ Thrown(st)
  /\ \E s \in {invoke("hostEnd", st, <<st.saved>>)} :
       /\ st' = caught(s)
       /\ call' = ended(s)
       /\ pc' = after(s)
  /\ UNCHANGED hrefs

\* the process is killed in the middle of a call of execute
Abort ==
  /\ pc = "run"
  /\ st.err # "OK"
  /\ ~Thrown(st)
  /\ pc' = "dead"
  /\ call' = ended(st)
  /\ UNCHANGED <<st, hrefs>>

\* the host calls evaluate(code), which ends in the state s
HostEvaluated(code, s) ==
  /\ st' = caught(s)
  /\ call' = [begun("evaluate", code) EXCEPT !.outcome = outcomeOf(s), !.err = s.err]
  /\ pc' = after(s)

HostEvaluateOf(codes) ==
  /\ pc = "idle"
  /\ call.n < MaxHostCalls
  /\ \E code \in codes :
       \E s \in {invoke("evaluate", [st EXCEPT !.log = <<>>, !.binds = {}, !.frames = {}, !.adopted = {}], <<code>>)} :
          HostEvaluated(code, s)
  /\ UNCHANGED hrefs

HostEvaluate == HostEvaluateOf(Expressions)

\* the Values the host makes for the round trip
RoundTripValues ==
  {BlankVar,
   [BlankVar EXCEPT !.flags = VARIABLE_NULL],
   setIntR(BlankVar, 0),
   setIntR(BlankVar, 5),
   setIntR(BlankVar, -7),
   [BlankVar EXCEPT !.flags = VARIABLE_FUNCTION, !.data = <<"{","}">>],
   setStringR(BlankVar, <<>>),
   setStringR(BlankVar, <<"a","b">>),
   setStringR(BlankVar, <<"a","\"","b">>),
   setStringR(BlankVar, <<"a","\\","b">>),
   setStringR(BlankVar, <<"a","\n","b">>),
   setStringR(BlankVar, <<"a","\r","b">>),
   setStringR(BlankVar, <<"a",BEL,"b">>),
   setStringR(BlankVar, <<"a","\t","b">>),
   setStringR(BlankVar, <<"a",HIGH,"b">>)}

HostRoundTrip ==
  /\ pc = "idle"
  /\ call.n < MaxHostCalls
  /\ \E r \in RoundTripValues :
       \E t \in {invoke("roundTrip", [st EXCEPT !.log = <<>>, !.binds = {}, !.frames = {}, !.adopted = {}], <<r>>)} :
          \E s \in {invoke("roundTripEnd", t.s, <<t.v>>)} :
             /\ st' = caught(s)
             /\ call' = [begun("roundTrip", t.text) EXCEPT
                           !.outcome = outcomeOf(t.s), !.err = t.s.err, !.value = r,
                           !.equal = ~Failed(t.s) /\ invoke("equals", t.s, <<t.s.nv, t.v>>)]
             /\ pc' = after(s)
  /\ UNCHANGED hrefs

\* the natives the host adds: the description, and the path and the parameters
\* it names
\* function exec(jsCode)
nExec ==
  [desc |-> <<"f","u","n","c","t","i","o","n"," ","e","x","e","c","(","j","s","C","o","d","e",")">>,
   path |-> <<"e","x","e","c">>, params |-> <<<<"j","s","C","o","d","e">>>>]
\* function g(a, b)
nPlain ==
  [desc |-> <<"f","u","n","c","t","i","o","n"," ","g","(","a",","," ","b",")">>,
   path |-> <<"g">>, params |-> <<<<"a">>, <<"b">>>>]
\* function P.Q.h(a)
nDotted ==
  [desc |-> <<"f","u","n","c","t","i","o","n"," ","P",".","Q",".","h","(","a",")">>,
   path |-> <<"P",".","Q",".","h">>, params |-> <<<<"a">>>>]
\* function String.len()
nString ==
  [desc |-> <<"f","u","n","c","t","i","o","n"," ","S","t","r","i","n","g",".","l","e","n","(",")">>,
   path |-> <<"S","t","r","i","n","g",".","l","e","n">>, params |-> <<>>]

Natives == {nExec, nPlain, nDotted, nString}
Callbacks == {"scExec", "scEval"}

\* the host calls addNative(funcDesc, ptr, userdata) and catches the Exception
HostAddNative ==
  /\ pc = "idle"
  /\ call.n < MaxHostCalls
  /\ \E d \in Natives, ptr \in Callbacks :
       \E s \in {invoke("addNative", st, <<d.desc, ptr>>)} :
          /\ st' = caught(s)
          /\ call' = [begun("addNative", d.desc) EXCEPT
                        !.outcome = outcomeOf(s), !.err = s.err, !.ptr = ptr]
          /\ pc' = after(s)
  /\ UNCHANGED hrefs

Next ==
  \/ HostExecute
  \/ ExecuteStatement
  \/ LoopEnter
  \/ LoopIterate
  \/ LoopLeave
  \/ ExecuteReturn
  \/ ExecuteCatch
  \/ Abort
  \/ HostEvaluate
  \/ HostRoundTrip
  \/ HostAddNative

Spec == Init /\ [][Next]_vars

\* the host that runs the scripts with long loops
HostExecuteLoops == HostExecuteOf(LoopScripts)

NextLoops ==
  \/ HostExecuteLoops
  \/ ExecuteStatement
  \/ LoopEnter
  \/ LoopIterate
  \/ LoopLeave
  \/ ExecuteReturn
  \/ ExecuteCatch

LoopSpec == Init /\ [][NextLoops]_vars

\* ------------------------------------------------------------------ properties

\* a call of the host has ended and the host has the interpreter back
callEnded == pc = "idle" /\ call.n > 0

\* the Value the root's child called name points to, 0 when the root has no
\* such child
globalOf(s, name) ==
  LET k == findChild(s, s.root, name) IN IF k = 0 THEN 0 ELSE s.L[k].var

\* the root's child called name holds the text
globalIs(s, name, text) ==
  globalOf(s, name) # 0 /\ getString(s.V[globalOf(s, name)]) = text

\* C2: when a call of execute returns without an error, every Value and every
\* Link alive is in the graph under the root, given that it was so when the
\* call began
C2_NoLeakAfterExecute ==
  (callEnded /\ call.kind = "execute" /\ call.outcome = "returned" /\ call.leakFree)
    => LeakFree(st)

\* C5: every call of execute or evaluateComplex that ended with an error left
\* the scope stack as it was at the entry of that call
C5_ScopesRestoredOnError ==
  \A i \in 1..Len(st.log) :
    st.log[i].err # "OK" => st.log[i].scopes = st.log[i].oldScopes

C7_CompoundShared ==
  \A b \in st.binds : b.shared = b.compound

\* the scripts without a syntax error of which a part is parsed and not executed
SkippingScripts ==
  {sSkipObject, sSkipArray, sSkipNew, sSkipCall, sSkipTernary, sReturnThenArray}

\* the names of the root's children
rootNames(s) == childNames(s, s.root)

\* C8: a script without a syntax error raises no parse error, whichever of its
\* parts are parsed without being executed
C8_SkippingRaisesNoParseError ==
  (call.code \in SkippingScripts) => (st.err # "MATCH" /\ call.err # "MATCH")

\* C9: a part of a script that is parsed without being executed changes
\* nothing: the skipped ternary leaves the run defined and the root with the
\* children it had, the skipped call and the skipped branch assign nothing
C9_SkippingChangesNothing ==
  /\ call.code = sSkipTernary => (~st.ub /\ rootNames(st) \subseteq rootNames(CHOOSE i \in InitialInterpreters : TRUE))
  /\ call.code = sSkipCall => (~globalIs(st, <<"t">>, <<"1">>) /\ ~globalIs(st, <<"t">>, <<"2">>))

\* C10: when the call of a function has ended, the result is the value of the
\* first return executed, the statements after it in the body have left no
\* trace, and the caller's following statements are executed
C10_ReturnEndsTheBody ==
  (callEnded /\ call.code \in {sReturnTwice, sReturnThenArray, sReturnInLoop})
    => /\ call.outcome = "returned"
       /\ globalIs(st, <<"r">>, <<"1">>)
       /\ call.code = sReturnTwice => (globalIs(st, <<"t">>, <<"0">>) /\ globalIs(st, <<"u">>, <<"3">>))
       /\ call.code = sReturnThenArray => globalIs(st, <<"u">>, <<"3">>)
       /\ call.code = sReturnInLoop => globalIs(st, <<"t">>, <<"1">>)

\* C11: an executed assignment (=, +=, -=) to an identifier that no scope
\* holds binds the name in the root scope and never in the call frame, and the
\* name is still bound to the assigned value when the calls have returned
C11_UndeclaredAssignmentIsGlobal ==
  (callEnded /\ call.outcome = "returned") =>
    /\ \A name \in st.adopted :
         /\ name \in rootNames(st)
         /\ \A f \in st.frames : name \notin f.names
    /\ (call.code = sGlobalTop /\ <<"g">> \in st.adopted) => globalIs(st, <<"g">>, <<"5">>)
    /\ (call.code = sGlobalInCall /\ <<"h">> \in st.adopted) => globalIs(st, <<"h">>, <<"6">>)
    /\ (call.code = sGlobalPlus /\ <<"c">> \in st.adopted) => globalIs(st, <<"c">>, <<"2">>)
    /\ (call.code = sGlobalMinus /\ <<"d">> \in st.adopted) => globalIs(st, <<"d">>, <<"-","1">>)

C11_Witness ==
  /\ callEnded
  /\ call.code = sGlobalInCall
  /\ \E f \in st.frames : f.depth = 1
  /\ <<"h">> \in st.adopted
  /\ globalIs(st, <<"h">>, <<"6">>)

\* the comparisons the host evaluates
ComparisonExpressions == {eEqual, eUndefEqual, eTypeEqual, eNullTypeEqual}

\* C18: evaluate returns the text "true" for a comparison that holds and the
\* text "false" for one that does not
C18_ComparisonText ==
  (callEnded /\ call.kind = "evaluate" /\ call.code \in ComparisonExpressions) =>
    /\ call.outcome = "returned"
    /\ call.code \in {eEqual, eUndefEqual} => st.str = <<"t","r","u","e">>
    /\ call.code \in {eTypeEqual, eNullTypeEqual} => st.str = <<"f","a","l","s","e">>

\* the scripts with a postfix operator
PostfixScripts == {sPostInc, sPostDec}

C20_TopLevelReturnGoesOn ==
  (callEnded /\ call.code = sTopReturn) =>
    /\ call.outcome = "returned"
    /\ st.err = "OK"
    /\ rootNames(st) = rootNames(CHOOSE i \in InitialInterpreters : TRUE) \cup {<<"u">>}
    /\ globalIs(st, <<"u">>, <<"2">>)

\* ------------------------------------------------------------------ the Values
\* A second specification: the host holds a heap of Values and calls deepCopy
\* and mathsOp on them.

MaxValueOps == 1

\* the host makes a Value and takes a reference on it
hostValue(r) == [parent |-> 0, name |-> <<>>, target |-> 0, r |-> r]
\* the host makes a Value and adds it as a child of the Value parent
childValue(parent, name, r) == [parent |-> parent, name |-> name, target |-> 0, r |-> r]
\* the host adds the Value target as a child of the Value parent
childLink(parent, name, target) == [parent |-> parent, name |-> name, target |-> target, r |-> BlankVar]

\* the Values the host holds, in the order of their addresses
SampleScalars ==
  <<BlankVar,                                             \* 1: undefined
    [BlankVar EXCEPT !.flags = VARIABLE_NULL],            \* 2: null
    setIntR(BlankVar, 0),                                 \* 3
    setIntR(BlankVar, 1),                                 \* 4
    setIntR(BlankVar, -7),                                \* 5
    setDoubleR(BlankVar, [n |-> 3, d |-> 2]),             \* 6: 1.5
    setDoubleR(BlankVar, dbl(0)),                         \* 7: 0.0
    setStringR(BlankVar, <<"1">>),                        \* 8
    setStringR(BlankVar, <<"a","b">>),                    \* 9
    setStringR(BlankVar, <<>>),                           \* 10: ""
    [BlankVar EXCEPT !.flags = VARIABLE_OBJECT],          \* 11: {}
    [BlankVar EXCEPT !.flags = VARIABLE_ARRAY],           \* 12: []
    [BlankVar EXCEPT !.flags = VARIABLE_FUNCTION, !.data = <<"{","}">>],  \* 13
    [BlankVar EXCEPT !.flags = VARIABLE_OBJECT],          \* 14: the class P
    [BlankVar EXCEPT !.flags = VARIABLE_OBJECT],          \* 15: the object T
    [BlankVar EXCEPT !.flags = VARIABLE_OBJECT]>>         \* 16: the object D

SampleD == Len(SampleScalars)
SampleT == SampleD - 1
SampleP == SampleT - 1

\* the children: P = {m: 9}, T = {a: 5, prototype: P, b: {0: "x", prototype: P}}
\* and D = {l: 3, r: the same 3}
SampleChildren ==
  <<childValue(SampleP, <<"m">>, setIntR(BlankVar, 9)),
    childValue(SampleT, <<"a">>, setIntR(BlankVar, 5)),
    childLink(SampleT, TINYJS_PROTOTYPE_CLASS, SampleP),
    childValue(SampleT, <<"b">>, [BlankVar EXCEPT !.flags = VARIABLE_OBJECT]),
    childValue(SampleD + 3, <<"0">>, setStringR(BlankVar, <<"x">>)),
    childLink(SampleD + 3, TINYJS_PROTOTYPE_CLASS, SampleP),
    childValue(SampleD, <<"l">>, setIntR(BlankVar, 3)),
    childLink(SampleD, <<"r">>, SampleD + 5)>>

SampleSteps == [i \in 1..Len(SampleScalars) |-> hostValue(SampleScalars[i])] \o SampleChildren

\* one step of the host: new Variable(...) with ref() or addChild(), or
\* addChild() of a Value there is
hostStep(s, t) ==
  IF t.target # 0 THEN invoke("addChild", s, <<t.parent, t.name, t.target>>)
  ELSE LET s1 == newVar(s, t.r)
       IN IF t.parent = 0 THEN ref(s1, s1.nv) ELSE invoke("addChild", s1, <<t.parent, t.name, s1.nv>>)

RECURSIVE hostSteps(_, _, _)
hostSteps(s, steps, i) ==
  IF i > Len(steps) THEN s
  ELSE LET s1 == hostStep(s, steps[i]) IN IF s1.err # "OK" THEN s1 ELSE hostSteps(s1, steps, i + 1)

\* the heap of the host
SampleHeap == hostSteps(BlankInterpreter(FALSE), SampleSteps, 1)

ArithmeticOps == {"+", "-", "*", "/", "%", "&", "|", "^"}
MathsOps == ArithmeticOps \cup CompareOps \cup {"===", "!=="}

\* What the host knows of its last call on the Values: the operation, its
\* operands, the heap before it, the result (0 when there is none) and the
\* error it threw.
NoValueCall(heap) ==
  [kind |-> "none", a |-> 0, b |-> 0, op |-> "", before |-> heap, result |-> 0,
   err |-> "OK", n |-> 0]

InitValues ==
  /\ st \in {SampleHeap}
  /\ pc = "values"
  /\ call = NoValueCall(st)
  /\ hrefs = [v \in 1..Len(SampleScalars) |-> 1]

\* the host calls v->deepCopy()
DeepCopyValue ==
  /\ pc = "values"
  /\ call.n < MaxValueOps
  /\ \E v \in AliveValues(st) :
       \E s1 \in {invoke("deepCopy", st, <<v>>)} :
          /\ st' = s1
          /\ call' = [kind |-> "deepCopy", a |-> v, b |-> 0, op |-> "", before |-> st,
                      result |-> s1.nv, err |-> "OK", n |-> call.n + 1]
  /\ UNCHANGED <<pc, hrefs>>

\* the host calls a->mathsOp(b, op) and catches the Exception
MathsOpValues ==
  /\ pc = "values"
  /\ call.n < MaxValueOps
  /\ \E a \in AliveValues(st), b \in AliveValues(st), op \in MathsOps :
       \E s1 \in {invoke("mathsOp", st, <<a, b, op>>)} :
          /\ st' = caught(s1)
          /\ call' = [kind |-> "mathsOp", a |-> a, b |-> b, op |-> op, before |-> st,
                      result |-> IF s1.err # "OK" THEN 0 ELSE s1.nv, err |-> s1.err,
                      n |-> call.n + 1]
          /\ pc' = IF s1.err # "OK" /\ ~Thrown(s1) THEN "dead" ELSE "values"
  /\ UNCHANGED hrefs

NextValues ==
  \/ DeepCopyValue
  \/ MathsOpValues

ValueSpec == InitValues /\ [][NextValues]_vars

\* the Value v is not a Value of the heap s
freshIn(s, v) == v > Len(s.V) \/ ~s.V[v].alive

\* a Value the specification calls a scalar
isScalar(r) == isUndefined(r) \/ isNull(r) \/ isInt(r) \/ isString(r)

\* the links of the graph under v
linksUnder(s, v) == UNION {childLinks(s, s.V[x].firstChild) : x \in reachFrom(s, {v})}

\* v is a tree of objects and arrays: no Value under it is the target of two
\* links, and no link leads back to v
isTree(s, v) ==
  /\ isObject(s.V[v]) \/ isArray(s.V[v])
  /\ \A k \in linksUnder(s, v) : s.L[k].var # v
  /\ \A k1 \in linksUnder(s, v), k2 \in linksUnder(s, v) : s.L[k1].var = s.L[k2].var => k1 = k2

RECURSIVE linkSeq(_, _)
linkSeq(s, k) == IF k = 0 THEN <<>> ELSE <<k>> \o linkSeq(s, s.L[k].nextSibling)

\* the Value c of the heap s1 is a copy of the Value v of the heap s0: a new
\* node, its children named as those of v and in their order, each prototype
\* child with the target it has in v and each other child with a copy
RECURSIVE isDeepCopy(_, _, _, _)
isDeepCopy(s0, s1, v, c) ==
  LET kv == linkSeq(s0, s0.V[v].firstChild)
      kc == linkSeq(s1, s1.V[c].firstChild)
  IN /\ freshIn(s0, c)
     /\ s1.V[c].alive
     /\ Len(kc) = Len(kv)
     /\ \A i \in 1..Len(kv) :
          /\ s1.L[kc[i]].name = s0.L[kv[i]].name
          /\ IF s0.L[kv[i]].name = TINYJS_PROTOTYPE_CLASS
             THEN s1.L[kc[i]].var = s0.L[kv[i]].var
             ELSE isDeepCopy(s0, s1, s0.L[kv[i]].var, s1.L[kc[i]].var)

\* the links of the heap s1 that the heap s0 has not
newLinks(s0, s1) == AliveLinks(s1) \ AliveLinks(s0)

\* C13: deepCopy returns a new node with the children's names in their order;
\* every child but prototype leads to a new node, at every depth, and every
\* prototype child to the node of the original, whose reference count grows by
\* one for each such child; the original graph is left as it was
C13_DeepCopyShape ==
  (call.kind = "deepCopy") =>
    /\ isDeepCopy(call.before, st, call.a, call.result)
    /\ \A k \in newLinks(call.before, st) :
         st.L[k].name # TINYJS_PROTOTYPE_CLASS => freshIn(call.before, st.L[k].var)
    /\ \A v \in AliveValues(call.before) :
         /\ st.V[v].refs = call.before.V[v].refs
              + Cardinality({k \in newLinks(call.before, st) : st.L[k].var = v})
         /\ st.V[v] = [call.before.V[v] EXCEPT !.refs = st.V[v].refs]
    /\ \A k \in AliveLinks(call.before) : st.L[k] = call.before.L[k]

C13_Witness ==
  /\ call.kind = "deepCopy"
  /\ call.a = SampleT
  /\ st.V[SampleP].refs = call.before.V[SampleP].refs + 2
  /\ Cardinality(AliveValues(st)) = Cardinality(AliveValues(call.before)) + 4

\* the type tag of a Variable record
typeTag(r) == r.flags \cap VARIABLE_TYPEMASK

\* the result of the call, taken as a boolean
resultHolds == call.result # 0 /\ getBool(st.V[call.result])

\* C16: mathsOp on two numbers with + - * / % & | ^ gives a new integer when
\* neither is a double; when one is a double it gives a new double for
\* + - * / and throws "not supported", with no Value made, for % & | ^; the
\* operands are left as they were
C16_ArithmeticResultType ==
  (/\ call.kind = "mathsOp"
   /\ call.op \in ArithmeticOps
   /\ isInt(call.before.V[call.a]) \/ isDouble(call.before.V[call.a])
   /\ isInt(call.before.V[call.b]) \/ isDouble(call.before.V[call.b])) =>
    /\ st.V[call.a] = call.before.V[call.a]
    /\ st.V[call.b] = call.before.V[call.b]
    /\ IF ~isDouble(call.before.V[call.a]) /\ ~isDouble(call.before.V[call.b])
       THEN /\ call.err = "OK"
            /\ call.result # 0
            /\ freshIn(call.before, call.result)
            /\ isInt(st.V[call.result])
       ELSE IF call.op \in {"+", "-", "*", "/"}
       THEN /\ call.err = "OK"
            /\ call.result # 0
            /\ freshIn(call.before, call.result)
            /\ isDouble(st.V[call.result])
       ELSE /\ call.err = "NOT_SUPPORTED"
            /\ call.result = 0
            /\ st.V = call.before.V

\* C17: === holds exactly of two Values with the same type tag of which ==
\* holds, and !== is its negation; 1 === "1" and null === undefined are false;
\* of two undefined Values == holds and != does not
C17_TypeEquality ==
  (call.kind = "mathsOp") =>
    LET ra == call.before.V[call.a]
        rb == call.before.V[call.b]
        same == typeTag(ra) = typeTag(rb) /\ invoke("equals", call.before, <<call.a, call.b>>)
    IN /\ call.op = "===" => (call.err = "OK" /\ (resultHolds <=> same))
       /\ call.op = "!==" => (call.err = "OK" /\ (resultHolds <=> ~same))
       /\ (call.op = "===" /\ isInt(ra) /\ isString(rb)) => ~resultHolds
       /\ (call.op = "===" /\ isNull(ra) /\ isUndefined(rb)) => ~resultHolds
       /\ (call.op = "==" /\ isUndefined(ra) /\ isUndefined(rb)) => resultHolds
       /\ (call.op = "!=" /\ isUndefined(ra) /\ isUndefined(rb)) => ~resultHolds

C17_Witness ==
  /\ call.kind = "mathsOp"
  /\ call.op = "==="
  /\ isInt(call.before.V[call.a])
  /\ isString(call.before.V[call.b])
  /\ invoke("equals", call.before, <<call.a, call.b>>)
  /\ call.err = "OK"
  /\ ~resultHolds

\* ------------------------------------------------------------------ the value graph
\* A third specification: the host builds a graph of Values and Links with
\* the operations of Variable and VariableLink.  hrefs[v] counts the
\* references the host has taken on the Value v with ref() and not released.

MaxValues == 2
MaxLinks == 2
MaxHostRefs == 1
MaxGraphOps == 6

\* the Values the host makes: undefined, an array
GraphRecords == {BlankVar, [BlankVar EXCEPT !.flags = VARIABLE_ARRAY]}

\* the names the host gives to links
GraphNames == {<<"a">>, <<>>}

GraphIndices == {0, 1}

NoGraphCall == [kind |-> "none", n |-> 0]

InitGraph ==
  /\ st \in {BlankInterpreter(b) : b \in BOOLEAN}
  /\ pc = "graph"
  /\ call = NoGraphCall
  /\ hrefs = <<>>

\* the links the host holds: alive and owned by no Value
HostLinks(s) == {k \in AliveLinks(s) : ~s.L[k].owned}

\* the host has called an operation that left the graph in the state s
GraphStep(kind, s) ==
  /\ st' = s
  /\ call.n < MaxGraphOps
  /\ call' = [kind |-> kind, n |-> call.n + 1]
  /\ pc' = IF s.err # "OK" \/ s.ub THEN "dead" ELSE "graph"

\* new Variable(...)
NewValue ==
  /\ pc = "graph"
  /\ Cardinality(AliveValues(st)) < MaxValues
  /\ \E r \in GraphRecords :
       LET s1 == newVar(st, r)
       IN /\ GraphStep("new", s1)
          /\ hrefs' = IF s1.nv > Len(hrefs) THEN Append(hrefs, 0) ELSE [hrefs EXCEPT ![s1.nv] = 0]

\* v->ref()
RefValue ==
  /\ pc = "graph"
  /\ \E v \in AliveValues(st) :
       /\ hrefs[v] < MaxHostRefs
       /\ GraphStep("ref", ref(st, v))
       /\ hrefs' = [hrefs EXCEPT ![v] = @ + 1]

\* v->unref(), for a reference the host has taken
UnrefValue ==
  /\ pc = "graph"
  /\ \E v \in AliveValues(st) :
       /\ hrefs[v] > 0
       /\ GraphStep("unref", invoke("unref", st, <<v>>))
       /\ hrefs' = [hrefs EXCEPT ![v] = @ - 1]

\* new VariableLink(v, name)
CreateLink ==
  /\ pc = "graph"
  /\ Cardinality(AliveLinks(st)) < MaxLinks
  /\ \E v \in AliveValues(st), name \in GraphNames :
       GraphStep("link", newVariableLink(st, v, name))
  /\ UNCHANGED hrefs

\* delete link, for a link the host holds
DestroyLink ==
  /\ pc = "graph"
  /\ \E k \in HostLinks(st) : GraphStep("unlink", invoke("deleteLink", st, <<k>>))
  /\ UNCHANGED hrefs

\* link->replaceWith(v)
ReplaceWith ==
  /\ pc = "graph"
  /\ \E k \in AliveLinks(st), v \in AliveValues(st) :
       GraphStep("replaceWith", invoke("replaceWith", st, <<k, v>>))
  /\ UNCHANGED hrefs

\* p->addChild(name, c)
AddChild ==
  /\ pc = "graph"
  /\ Cardinality(AliveLinks(st)) < MaxLinks
  /\ \E p \in AliveValues(st), c \in AliveValues(st), name \in GraphNames :
       GraphStep("addChild", invoke("addChild", st, <<p, name, c>>))
  /\ UNCHANGED hrefs

\* p->addChildNoDup(name, c)
AddChildNoDup ==
  /\ pc = "graph"
  /\ \E p \in AliveValues(st), c \in AliveValues(st), name \in GraphNames :
       /\ findChild(st, p, name) # 0 \/ Cardinality(AliveLinks(st)) < MaxLinks
       /\ GraphStep("addChildNoDup", invoke("addChildNoDup", st, <<p, name, c>>))
  /\ UNCHANGED hrefs

\* p->removeLink(k), for a child link k of p
RemoveLink ==
  /\ pc = "graph"
  /\ \E p \in AliveValues(st) :
       \E k \in childLinks(st, st.V[p].firstChild) : GraphStep("removeLink", invoke("removeLink", st, <<p, k>>))
  /\ UNCHANGED hrefs

\* p->removeAllChildren()
RemoveAllChildren ==
  /\ pc = "graph"
  /\ \E p \in AliveValues(st) :
       /\ st.V[p].firstChild # 0
       /\ GraphStep("removeAllChildren", invoke("removeAllChildren", st, <<p>>))
  /\ UNCHANGED hrefs

\* p->setArrayIndex(idx, v), for an array p
SetArrayIndex ==
  /\ pc = "graph"
  /\ \E p \in AliveValues(st), v \in AliveValues(st), idx \in GraphIndices :
       /\ isArray(st.V[p])
       /\ findChild(st, p, intToStr(idx)) # 0 \/ Cardinality(AliveLinks(st)) < MaxLinks
       /\ GraphStep("setArrayIndex", setArrayIndex(st, p, idx, v))
  /\ UNCHANGED hrefs

\* p->findChildOrCreate(name)
FindChildOrCreate ==
  /\ pc = "graph"
  /\ \E p \in AliveValues(st), name \in GraphNames :
       /\ \/ findChild(st, p, name) # 0
          \/ /\ Cardinality(AliveLinks(st)) < MaxLinks
             /\ Cardinality(AliveValues(st)) < MaxValues
       /\ \E s \in {invoke("findChildOrCreate", st, <<p, name, VARIABLE_UNDEFINED>>)} :
            /\ GraphStep("findChildOrCreate", s)
            /\ hrefs' = IF Len(s.V) > Len(hrefs) THEN Append(hrefs, 0)
                        ELSE IF AliveValues(s) = AliveValues(st) THEN hrefs
                        ELSE [hrefs EXCEPT ![s.nv] = 0]

\* p->removeChild(c), for a child c of p
RemoveChild ==
  /\ pc = "graph"
  /\ \E p \in AliveValues(st) :
       \E k \in childLinks(st, st.V[p].firstChild) :
          GraphStep("removeChild", removeChild(st, p, st.L[k].var))
  /\ UNCHANGED hrefs

NextGraph ==
  \/ NewValue
  \/ RefValue
  \/ UnrefValue
  \/ CreateLink
  \/ DestroyLink
  \/ ReplaceWith
  \/ AddChild
  \/ AddChildNoDup
  \/ RemoveLink
  \/ RemoveAllChildren
  \/ SetArrayIndex
  \/ FindChildOrCreate
  \/ RemoveChild

GraphSpec == InitGraph /\ [][NextGraph]_vars

\* the live links that lead to the Value v, and the references of the host
linksTo(s, v) == {k \in AliveLinks(s) : s.L[k].var = v}
countOf(s, h, v) == Cardinality(linksTo(s, v)) + h[v]

\* every live Value counts its links and the references of the host
countsRight(s, h) == \A v \in AliveValues(s) : s.V[v].refs = countOf(s, h, v)

\* C1: after every operation the reference count of every live Value is the
\* number of live links that lead to it plus the references the host has
\* taken and not released; a Value is destroyed in a step exactly when the
\* step brings its count to zero
C1_ReferenceCounts ==
  [][/\ countsRight(st', hrefs')
     /\ \A v \in AliveValues(st) :
          /\ v \notin AliveValues(st') => countOf(st', hrefs', v) = 0
          /\ (v \in AliveValues(st') /\ st.V[v].refs > 0) => st'.V[v].refs > 0]_vars

C1_Witness ==
  /\ pc = "graph"
  /\ \E v \in AliveValues(st) : st.V[v].refs = 2 /\ hrefs[v] = 1
  /\ \E v \in 1..Len(st.V) : ~st.V[v].alive
  /\ ~st.ub

\* the names that are decimal numerals
isNumeral(str) == Len(str) > 0 /\ \A i \in 1..Len(str) : str[i] \in Digits

\* the indices among the names of the children of v
indicesOf(s, v) == {atoi(name) : name \in {n \in childNames(s, v) : isNumeral(n)}}

\* C14: the length of an array is one plus the largest index among the names
\* of its children, and 0 when no child is named by a numeral; the length of
\* a Value that is not an array is 0
C14_ArrayLength ==
  \A v \in AliveValues(st) :
    invoke("getArrayLength", st, <<v>>) =
      IF ~isArray(st.V[v]) \/ indicesOf(st, v) = {} THEN 0
      ELSE 1 + CHOOSE m \in indicesOf(st, v) : \A i \in indicesOf(st, v) : i <= m

\* a round trip of the host has ended
roundTripEnded == callEnded /\ call.kind = "roundTrip"

\* C15: for every integer, string, null, undefined and trivial-body function
\* Value v, evaluate(get_parsable_string(v)) returns and yields a Value equal
\* to v under equals, whatever the characters of a string are
C15_RoundTrip ==
  (pc \in {"idle", "dead"} /\ call.kind = "roundTrip") =>
    call.outcome = "returned" /\ call.equal

\* the step that begins a loop statement, a pass of its C++ while loop, and the
\* step that ends the statement
loopBegins == pc = "run" /\ pc' = "loop"
loopPasses == pc = "loop" /\ pc' = "loop"
loopEnds == pc = "loop" /\ pc' = "run"

\* the passes of the C++ while loop that a loop statement has made
passesOf(lp) == LOOP_MAX_ITERATIONS - lp.loopCount

\* C3: a loop statement makes at most LOOP_MAX_ITERATIONS passes after its
\* initial pass, and when its condition has been true at every evaluation it
\* ends after just that many passes by raising LOOP_ERROR, the current lexer
\* being the one that was current when the statement began
C3_LoopCapped ==
  [][/\ loopBegins => st'.lp.oldLex = st.l /\ passesOf(st'.lp) = 0
     /\ loopPasses => /\ st'.lp.oldLex = st.lp.oldLex
                      /\ passesOf(st'.lp) = passesOf(st.lp) + 1
                      /\ passesOf(st'.lp) <= LOOP_MAX_ITERATIONS
     /\ (loopEnds /\ st.ex /\ st.lp.loopCond) =>
          /\ passesOf(st.lp) = LOOP_MAX_ITERATIONS
          /\ st'.err = "LOOP_ERROR"
          /\ st'.l = st.lp.oldLex
          /\ st'.X[st'.l].alive]_vars

\* a loop that never ends of itself has been stopped
C3_Witness ==
  /\ pc = "run"
  /\ call.code \in {sWhileForever, sForForever}
  /\ st.err = "LOOP_ERROR"
  /\ passesOf(st.lp) = LOOP_MAX_ITERATIONS

\* C4: a loop statement whose condition is false at one of the evaluations
\* that follow the initial pass, the LOOP_MAX_ITERATIONS-th included, ends
\* without an error
C4_NoErrorBelowCap ==
  [][(loopEnds /\ ~st.lp.loopCond) => st'.err = "OK"]_vars

\* the native of the host's call of addNative
nativeOf(c) == CHOOSE d \in Natives : d.desc = c.code

\* the names of the children of the Value v, in the order of the links
RECURSIVE namesFrom(_, _)
namesFrom(s, link) ==
  IF link = 0 THEN <<>> ELSE <<s.L[link].name>> \o namesFrom(s, s.L[link].nextSibling)

\* the first i characters of the path name a plain object
RECURSIVE prefixesAreObjects(_, _, _)
prefixesAreObjects(s, path, i) ==
  IF i > Len(path) THEN TRUE
  ELSE /\ path[i] = "." =>
            LET v == getScriptVariable(s, SubSeq(path, 1, i - 1))
            IN v # 0 /\ isObject(s.V[v])
       /\ prefixesAreObjects(s, path, i + 1)

\* the step is a call of addNative that returns
addNativeReturns == pc = "idle" /\ call'.kind = "addNative" /\ call'.n = call.n + 1
                    /\ call'.outcome = "returned"

\* C21: when addNative("function P1.P2.name(a1, ..., an)", cb, ud) has
\* returned, whatever the root held before, the objects on the path are there,
\* getScriptVariable of the path is a native function with the callback cb and
\* the parameters a1..an in order as its children, and the current lexer is
\* the one of before
C21_AddNativeInstalls ==
  [][addNativeReturns =>
       LET d == nativeOf(call')
           v == getScriptVariable(st', d.path)
       IN /\ prefixesAreObjects(st', d.path, 1)
          /\ v # 0
          /\ isFunction(st'.V[v]) /\ isNative(st'.V[v])
          /\ st'.V[v].jsCallback = call'.ptr
          /\ namesFrom(st', st'.V[v].firstChild) = d.params
          /\ st'.l = st.l]_vars

\* C22: in every evaluation no Link is read, retargeted or destroyed after it
\* has been destroyed, with execute = true and with execute = false
C22_LinksUsedAlive == ~st.deadLink

\* the child links of the Value v in their order, followed from firstChild
\* for at most n links
RECURSIVE listFrom(_, _, _)
listFrom(s, k, n) ==
  IF k = 0 \/ n = 0 THEN <<>> ELSE <<k>> \o listFrom(s, s.L[k].nextSibling, n - 1)

listOf(s, v) == listFrom(s, s.V[v].firstChild, Len(s.L) + 1)

\* the child list of the Value v is a well-formed doubly-linked list of owned
\* links
wellFormed(s, v) ==
  LET list == listOf(s, v)
      n == Len(list)
  IN /\ n <= Len(s.L)
     /\ (s.V[v].firstChild = 0) = (n = 0)
     /\ (s.V[v].lastChild = 0) = (n = 0)
     /\ n > 0 => /\ s.L[list[1]].prevSibling = 0
                 /\ s.V[v].lastChild = list[n]
                 /\ s.L[list[n]].nextSibling = 0
     /\ \A i \in 1..n : s.L[list[i]].alive /\ s.L[list[i]].owned
     /\ \A i \in 1..(n - 1) : s.L[list[i + 1]].prevSibling = list[i]
     /\ \A i, j \in 1..n : list[i] = list[j] => i = j

\* the sequence a with the elements outside the set keep left out
RECURSIVE restrictedTo(_, _)
restrictedTo(a, keep) ==
  IF a = <<>> THEN <<>>
  ELSE (IF Head(a) \in keep THEN <<Head(a)>> ELSE <<>>) \o restrictedTo(Tail(a), keep)

isPrefix(a, b) == Len(a) <= Len(b) /\ SubSeq(b, 1, Len(a)) = a

\* the names of the links of a list
namesOf(s, list) == [i \in 1..Len(list) |-> s.L[list[i]].name]

\* the children of v after a step are those of before that are still there,
\* in their order, and then the new ones
orderKept(s0, s1, v) ==
  isPrefix(restrictedTo(listOf(s0, v), AliveLinks(s1)), listOf(s1, v))

\* C23: after every operation on the children of a Value the operation was
\* defined, the child list of every Value is a well-formed doubly-linked list
\* of owned links in the order of insertion, and addChildNoDup and
\* findChildOrCreate have added no second child of a name
C23_ChildLists ==
  [][/\ ~st'.ub
     /\ \A v \in AliveValues(st') : wellFormed(st', v)
     /\ \A v \in AliveValues(st) \cap AliveValues(st') :
          /\ orderKept(st, st', v)
          /\ call'.kind \in {"addChildNoDup", "findChildOrCreate"} =>
               \A name \in GraphNames :
                 (\E i \in 1..Len(listOf(st, v)) : st.L[listOf(st, v)[i]].name = name) =>
                   Cardinality({i \in 1..Len(listOf(st', v)) : st'.L[listOf(st', v)[i]].name = name})
                     <= Cardinality({i \in 1..Len(listOf(st, v)) : st.L[listOf(st, v)[i]].name = name})]_vars

\* ------------------------------------------------------------------ lexers and sub-lexers

\* the texts the lexers scan
\* while (i < 3) i++;
tWhile ==
  <<"w","h","i","l","e"," ","(","i"," ","<"," ","3",")"," ","i","+","+",";">>
\* ab
tWord ==
  <<"a","b">>
\* a /* c */ + "s\n" // x\n b
tComments ==
  <<"a"," ","/","*"," ","c"," ","*","/"," ","+"," ","\"","s","\\","n","\""," ","/","/"," ","x","\n"," ","b">>
\* x = 010 + 0x1F - 1.5e3;
tNumbers ==
  <<"x"," ","="," ","0","1","0"," ","+"," ","0","x","1","F"," ","-"," ","1",".","5","e","3",";">>
\* f('a')>>>=b!==c
tOperators ==
  <<"f","(","'","a","'",")",">",">",">","=","b","!","=","=","c">>
\* 
tEmpty ==
  <<>>

LexTexts == {tWhile, tWord, tComments, tNumbers, tOperators, tEmpty}

\* the bound on the resets of the sub-lexer in one behaviour
MaxResets == 2

\* What the host knows of its lexers: the offset it remembered (-1 before),
\* the tokens the parent has produced since its construction, how many of
\* them it had produced when the offset was remembered, the sub-lexer (0
\* before getSubLex), the tokens the sub-lexer has produced since its last
\* reset, and the number of resets.
NoLexCall ==
  [kind |-> "new", from |-> -1, seen |-> <<>>, mark |-> 0, sub |-> 0, got |-> <<>>, n |-> 0]

\* the current token of a lexer: kind and text
tokenOf(x) == [tk |-> x.tk, tkStr |-> x.tkStr]

InitLexer ==
  /\ st \in {[newLexer(BlankInterpreter(FALSE), invoke("LexerOfString", text, <<>>)) EXCEPT !.l = 1] : text \in LexTexts}
  /\ pc = "lex"
  /\ call = NoLexCall
  /\ hrefs = <<>>

\* l->getNextToken() on the parent, before the sub-lexer is made
ParentToken ==
  /\ pc = "lex"
  /\ call.sub = 0
  /\ st.X[st.l].tk # LEXER_EOF
  /\ st' = [st EXCEPT !.X[st.l] = invoke("getNextToken", @, <<>>)]
  /\ call' = [call EXCEPT !.kind = "getNextToken", !.seen = Append(@, tokenOf(st.X[st.l]))]
  /\ UNCHANGED <<pc, hrefs>>

\* "int start = l->tokenStart": the host remembers where the current token
\* starts
RememberStart ==
  /\ pc = "lex"
  /\ call.from = -1
  /\ call' = [call EXCEPT !.kind = "tokenStart", !.from = st.X[st.l].tokenStart,
                          !.mark = Len(call.seen)]
  /\ UNCHANGED <<st, pc, hrefs>>

\* l->getSubLex(start)
GetSubLex ==
  /\ pc = "lex"
  /\ call.from # -1
  /\ call.sub = 0
  /\ \E s \in {invoke("getSubLex", st, <<st.l, call.from>>)} :
       /\ st' = s
       /\ call' = [call EXCEPT !.kind = "getSubLex", !.sub = s.nx]
  /\ UNCHANGED <<pc, hrefs>>

\* sub->getNextToken()
SubToken ==
  /\ pc = "lex"
  /\ call.sub # 0
  /\ st.X[call.sub].tk # LEXER_EOF
  /\ st' = [st EXCEPT !.X[call.sub] = invoke("getNextToken", @, <<>>)]
  /\ call' = [call EXCEPT !.kind = "subToken", !.got = Append(@, tokenOf(st.X[call.sub]))]
  /\ UNCHANGED <<pc, hrefs>>

\* sub->reset()
SubReset ==
  /\ pc = "lex"
  /\ call.sub # 0
  /\ call.n < MaxResets
  /\ st' = [st EXCEPT !.X[call.sub] = invoke("reset", @, <<>>)]
  /\ call' = [call EXCEPT !.kind = "reset", !.got = <<>>, !.n = @ + 1]
  /\ UNCHANGED <<pc, hrefs>>

NextLexer ==
  \/ ParentToken
  \/ RememberStart
  \/ GetSubLex
  \/ SubToken
  \/ SubReset

LexerSpec == InitLexer /\ [][NextLexer]_vars

\* the tokens of the parent from the remembered one to the one before its
\* current token
remembered == SubSeq(call.seen, call.mark + 1, Len(call.seen))

\* the sub-lexer has produced all its tokens and is at its end
subAtEnd == pc = "lex" /\ call.sub # 0 /\ st.X[call.sub].tk = LEXER_EOF

\* C24: after its construction and after every reset the sub-lexer yields
\* exactly the tokens of the parent from the one at the remembered offset to
\* the one before the parent's current token, then the end of input; no token
\* of it reaches its end offset; a second reset changes nothing
C24_SubLexerTokens ==
  (pc = "lex" /\ call.sub # 0) =>
    /\ Len(call.got) <= Len(remembered)
    /\ call.got = SubSeq(remembered, 1, Len(call.got))
    /\ st.X[call.sub].tk = LEXER_EOF => call.got = remembered
    /\ st.X[call.sub].tk # LEXER_EOF =>
         /\ Len(call.got) < Len(remembered)
         /\ tokenOf(st.X[call.sub]) = remembered[Len(call.got) + 1]
         /\ st.X[call.sub].tokenStart >= st.X[call.sub].dataStart
         /\ st.X[call.sub].tokenEnd < st.X[call.sub].dataEnd
    /\ invoke("reset", invoke("reset", st.X[call.sub], <<>>), <<>>) = invoke("reset", st.X[call.sub], <<>>)
    /\ call.kind = "reset" => invoke("reset", st.X[call.sub], <<>>) = st.X[call.sub]

\* C25: an integer literal of decimal digits, with a leading 0 or without, has
\* the value of its digits in base 10; a literal with the prefix 0x is read in
\* base 16
C25_DecimalLiterals ==
  (callEnded /\ call.code = sLiterals) =>
    /\ call.outcome = "returned"
    /\ globalIs(st, <<"a">>, <<"7">>)
    /\ globalIs(st, <<"b">>, <<"1","0">>)
    /\ globalIs(st, <<"c">>, <<"1","0">>)
    /\ globalIs(st, <<"d">>, <<"9">>)
    /\ globalIs(st, <<"e">>, <<"3","1">>)

\* C26: a shift expression on a variable or a member leaves the variable, the
\* member and the variables assigned from it as they were; the shifted number
\* is the value of the expression only
C26_ShiftLeavesOperand ==
  (callEnded /\ call.code = sShift) =>
    /\ call.outcome = "returned"
    /\ globalIs(st, <<"x">>, <<"8">>)
    /\ globalIs(st, <<"y">>, <<"4">>)
    /\ globalIs(st, <<"z">>, <<"1">>)
    /\ globalIs(st, <<"a">>, <<"4">>)
    /\ globalIs(st, <<"b">>, <<"4">>)
    /\ globalOf(st, <<"o">>) # 0
    /\ findChild(st, globalOf(st, <<"o">>), <<"m">>) # 0
    /\ getInt(st.V[st.L[findChild(st, globalOf(st, <<"o">>), <<"m">>)].var]) = 16

\* the call b->mathsOp(a, op), with the operands of the host's call exchanged
exchanged == invoke("mathsOp", call.before, <<call.b, call.a, call.op>>)

\* C27: == and != give the same boolean whichever operand is the receiver,
\* also when one operand is an array or an object and the other one a string,
\* a number, null or undefined
C27_EqualitySymmetric ==
  (call.kind = "mathsOp" /\ call.op \in {"==", "!="}) =>
    /\ call.err = "OK"
    /\ exchanged.err = "OK"
    /\ getBool(st.V[call.result]) = getBool(exchanged.V[exchanged.nv])

\* the Value v has a child called name whose Value reads as text
memberIs(s, v, name, text) ==
  /\ v # 0
  /\ findChild(s, v, name) # 0
  /\ getString(s.V[s.L[findChild(s, v, name)].var]) = text

\* C28: an assignment o.name = v, with name found only through the prototype
\* of o or in the built-in Object class, leaves the prototype and the class as
\* they were; afterwards o.name is v, and the member read on another object
\* with the same prototype is the old one
C28_AssignLeavesPrototype ==
  (callEnded /\ call.code = sProtoAssign) =>
    /\ call.outcome = "returned"
    /\ globalIs(st, <<"u">>, <<"2">>)
    /\ memberIs(st, globalOf(st, <<"P">>), <<"m">>, <<"1">>)
    /\ globalIs(st, <<"r">>, <<"1">>)
    /\ memberIs(st, st.objectClass, <<"k">>, <<"3">>)
    /\ globalIs(st, <<"w">>, <<"3">>)

\* C29: the lookup of a member terminates, also on an object whose prototype
\* is the object itself and with a name no object of the chain has
C29_LookupTerminates ==
  (pc \in {"idle", "dead"} /\ call.code = sProtoCycle) =>
    /\ call.outcome = "returned"
    /\ st.err # "HANG"

\* C30: reading an element a[i] of an array leaves a.length as it was, also
\* for an index i from a.length on
C30_ReadKeepsLength ==
  (callEnded /\ call.code = sReadIndex) =>
    /\ call.outcome = "returned"
    /\ globalIs(st, <<"n","0">>, <<"2">>)
    /\ globalIs(st, <<"n","1">>, <<"2">>)
    /\ globalIs(st, <<"n","2">>, <<"2">>)
    /\ invoke("getArrayLength", st, <<globalOf(st, <<"a">>)>>) = 2

====
